---- MODULE Spec2Model ----
(***************************************************************************)
(* MiniChain ledger core: account state transition function                *)
(* (minichain/state.py), block and Merkle root (minichain/block.py),       *)
(* header hashing (consensus/pow.py), contract sandbox (core/contract.py)  *)
(* and the chain with add_block / validate_chain / replace_chain           *)
(* (minichain/chain.py).                                                   *)
(*                                                                         *)
(* Abstractions.  SHA-256 is modelled as an injective function: the hash   *)
(* of a value is the tuple of the hashed fields, so two hashes are equal   *)
(* exactly when the hashed contents are equal.  The number of leading zero *)
(* hex characters of a header hash is a fixed deterministic function of    *)
(* the header (HashZeros).  An Ed25519 signature is the pair (signing key, *)
(* signed payload); a public key is identified with its signing key.       *)
(* Python's None is NoneStr for text fields, NoneInt for integer fields    *)
(* and the empty tuple for hashes.                                         *)
(***************************************************************************)
EXTENDS Integers, Sequences, FiniteSets, TLC

VARIABLES
    chain,      \* Blockchain.chain: sequence of Block objects
    accounts,   \* Blockchain.state.accounts: address -> account
    ret,        \* the last completed call: operation, argument, result
    applied,    \* history: (sender, nonce) pairs applied successfully so far
    lock,       \* Blockchain._lock owner (0 = free)
    pc,         \* position of each thread inside add_block / cmd_status
    local,      \* per writer thread: the block argument and temp_state
    obs,        \* what the reader thread has read so far
    mempool,    \* Mempool: _pending_txs and _seen_tx_ids
    nonce_map,  \* MiniChainCLI.nonce_map: address -> next nonce to hand out
    pool_lock,  \* Mempool._lock owner (0 = free)
    calls       \* per thread calling the Mempool: position and local names

vars == <<chain, accounts, ret, applied, lock, pc, local, obs, mempool, nonce_map, pool_lock, calls>>

-----------------------------------------------------------------------------
(* Bounds *)

MaxChain == 3          \* longest local chain / candidate (genesis included)
MaxNonce == 1          \* transaction nonces are drawn from 0..MaxNonce
MaxPowNonce == 1       \* proof-of-work nonces are drawn from 0..MaxPowNonce
MaxCredits == 1        \* mining rewards credited per account balance bound
MaxAttempts == 3       \* largest max_nonce handed to mine_block
MaxClock == 2          \* wall-clock readings (ms) are drawn from 0..MaxClock
MaxTxs == 5            \* longest transaction list of a block being built
MaxPool == 2           \* Mempool.max_size

-----------------------------------------------------------------------------
(* Values *)

NoneStr == "None"
NoneInt == -1
NoneHash == <<>>

COINBASE_SENDER == "0000"
DEFAULT_MINING_REWARD == 50
GENESIS_HASH == <<64>>          \* "0" * 64: a run of 64 zero characters
GENESIS_PREVIOUS == <<1>>       \* "0"

Users == {"a", "b"}             \* key pairs; the node's wallet is "a"
Wallet == "a"

Falsy(v) == v \in {NoneStr, ""}

-----------------------------------------------------------------------------
(* minichain/transaction.py *)

\* Transaction.hash_payload: the signed fields
hash_payload(tx) ==
    <<tx.sender, tx.receiver, tx.amount, tx.nonce, tx.data, tx.timestamp>>

NoSignature == [signer |-> NoneStr, payload |-> <<>>]

\* Transaction.__init__: a given timestamp is converted to milliseconds
Transaction(sender, receiver, amount, nonce, data, signature, timestamp) ==
    [sender |-> sender, receiver |-> receiver, amount |-> amount,
     nonce |-> nonce, data |-> data,
     timestamp |-> timestamp * 1000,
     signature |-> signature]

\* Transaction.sign: requires the key of the sender (else ValueError)
sign(tx, key) ==
    [tx EXCEPT !.signature = [signer |-> key, payload |-> hash_payload(tx)]]

is_coinbase(tx) == tx.sender = COINBASE_SENDER

\* verify without the comparison of the signature with the payload
verify_anysig(tx) ==
    IF is_coinbase(tx) THEN TRUE
    ELSE tx.signature # NoSignature

\* Transaction.sign_with_hex: signs with any key, the sender's or not
sign_with_hex(tx, private_key_hex) ==
    [tx EXCEPT !.signature = [signer |-> private_key_hex,
                              payload |-> hash_payload(tx)]]

\* a signature string that is not hexadecimal
MalformedSignature == [signer |-> NoneStr, payload |-> <<"zz">>]

\* a sender string that is not a public key (bad hex or wrong length)
MalformedKey == "zz"

\* the try body of Transaction.verify: the exception it raises, NoneStr when
\* the signature verifies.  VerifyKey(...) rejects a string that is no key,
\* bytes.fromhex a string that is no hex, verify_key.verify a signature that
\* is not the sender's over hash_payload.
verify_try(tx) ==
    IF tx.sender \notin Users THEN "ValueError"
    ELSE IF tx.signature = MalformedSignature THEN "ValueError"
    ELSE IF \/ tx.signature.signer # tx.sender
            \/ tx.signature.payload # hash_payload(tx)
    THEN "BadSignatureError"
    ELSE NoneStr

\* "except (BadSignatureError, CryptoError, ValueError, TypeError)"
VerifyCaught == {"BadSignatureError", "CryptoError", "ValueError", "TypeError"}

\* verify with a handler for BadSignatureError only
verify_uncaught(tx) ==
    IF is_coinbase(tx) \/ tx.signature = NoSignature THEN NoneStr
    ELSE IF verify_try(tx) = "BadSignatureError" THEN NoneStr
    ELSE verify_try(tx)

\* the exception that leaves Transaction.verify (NoneStr when it returns)
verify_raises(tx) ==
    IF is_coinbase(tx) \/ tx.signature = NoSignature THEN NoneStr
    ELSE IF verify_try(tx) \in VerifyCaught THEN NoneStr
    ELSE verify_try(tx)

\* Transaction.verify
verify(tx) ==
    IF is_coinbase(tx) THEN TRUE
    ELSE IF tx.signature = NoSignature THEN FALSE
    ELSE verify_try(tx) = NoneStr

\* Transaction.to_dict: the wire form has the same seven fields
tx_to_dict(tx) == tx

\* Transaction(**tx_dict) as called by validate_chain / replace_chain
TransactionFromKwargs(d) ==
    Transaction(d.sender, d.receiver, d.amount, d.nonce, d.data,
                d.signature, d.timestamp)

-----------------------------------------------------------------------------
(* core/contract.py *)

EmptyStorage == [k \in {} |-> 0]

StorageGet(storage, key, default) ==
    IF key \in DOMAIN storage THEN storage[key] ELSE default

\* the contract sources with a construct that _validate_code_ast forbids
ForbiddenCodes ==
    {"import os", "from os import path", "x = storage.__class__",
     "x = __builtins__", "x = 'a__b'", "x = getattr(storage, 'get')",
     "setattr(storage, 'a', 1)", "delattr(storage, 'a')",
     "x = type(storage)", "x = f'{storage}'"}

\* ast.walk(ast.parse(code)): the nodes of the sources of the model that the
\* validator looks at.  A node has its class (type), the identifier it holds
\* (id: the attr of an Attribute, the id of a Name, the callee of a Call),
\* whether that identifier starts with "__" (dunder) and, for a string
\* constant, whether "__" occurs in it (inside).
AstNode(type, id, dunder, inside) ==
    [type |-> type, id |-> id, dunder |-> dunder, inside |-> inside]

ast_walk(code) ==
    LET storage == AstNode("Name", "storage", FALSE, FALSE)
        x == AstNode("Name", "x", FALSE, FALSE)
        call(f) == {AstNode("Call", f, FALSE, FALSE),
                    AstNode("Name", f, FALSE, FALSE), storage}
    IN  CASE code = "import os" -> {AstNode("Import", "os", FALSE, FALSE)}
          [] code = "from os import path" ->
                {AstNode("ImportFrom", "os", FALSE, FALSE)}
          [] code = "x = storage.__class__" ->
                {x, storage, AstNode("Attribute", "__class__", TRUE, FALSE)}
          [] code = "x = __builtins__" ->
                {x, AstNode("Name", "__builtins__", TRUE, FALSE)}
          [] code = "x = 'a__b'" ->
                {x, AstNode("Constant", "", FALSE, TRUE)}
          [] code = "x = getattr(storage, 'get')" ->
                call("getattr") \cup {x, AstNode("Constant", "", FALSE, FALSE)}
          [] code = "setattr(storage, 'a', 1)" ->
                call("setattr") \cup {AstNode("Constant", "", FALSE, FALSE)}
          [] code = "delattr(storage, 'a')" ->
                call("delattr") \cup {AstNode("Constant", "", FALSE, FALSE)}
          [] code = "x = type(storage)" -> call("type") \cup {x}
          [] code = "x = f'{storage}'" ->
                {x, storage, AstNode("JoinedStr", "", FALSE, FALSE)}
          [] OTHER ->
                {storage, AstNode("Subscript", "", FALSE, FALSE),
                 AstNode("Constant", "", FALSE, FALSE),
                 AstNode("Attribute", "get", FALSE, FALSE),
                 AstNode("Call", "", FALSE, FALSE)}

\* one iteration of the loop of _validate_code_ast: the node is rejected
RejectedNode(node) ==
    \/ node.type = "Attribute" /\ node.dunder
    \/ node.type = "Name" /\ node.dunder
    \/ node.type \in {"Import", "ImportFrom"}
    \/ node.type = "Call" /\ node.id = "type"
    \/ node.type = "Call" /\ node.id \in {"getattr", "setattr", "delattr"}
    \/ node.type = "Constant" /\ node.inside
    \/ node.type = "JoinedStr"

\* a validator that lets every source pass
validate_code_ast_off(code) == TRUE

\* ContractMachine._validate_code_ast
validate_code_ast(code) == \A node \in ast_walk(code) : ~RejectedNode(node)

\* a storage value that json.dumps refuses (a set)
NotSerializable == -1

\* "json.dumps(result['storage'])" succeeds
json_serializable(storage) ==
    \A k \in DOMAIN storage : storage[k] # NotSerializable

\* the integer 5 held where a storage mapping is expected: what
\* context_dict.get("storage") yields after the contract ran "storage = 5"
NotAMapping == [k \in {"<int>"} |-> 5]

\* the value is a dict, so that "dict(account.get('storage', {}))" succeeds
IsMapping(storage) == storage # NotAMapping

\* _safe_exec_worker: exec(code) in the worker process, seen from the parent:
\* "success" with the new storage, "error" (exception in the contract),
\* "timeout" (still alive after the join), "crashed" (no result queued, as
\* when a resource limit kills the worker)
safe_exec_worker(code, storage, msg) ==
    IF code = "inc"
    THEN [status |-> "success",
          storage |-> [k \in DOMAIN storage \cup {"counter"} |->
                         IF k = "counter"
                         THEN StorageGet(storage, "counter", 0) + 1
                         ELSE storage[k]]]
    ELSE IF code = "set"
    THEN [status |-> "success",
          storage |-> [k \in DOMAIN storage \cup {"counter"} |->
                         IF k = "counter" THEN NotSerializable
                         ELSE storage[k]]]
    ELSE IF code \in {"x = storage.__class__", "x = 'a__b'"}
    THEN [status |-> "success",
          storage |-> [k \in DOMAIN storage \cup {"ran"} |->
                         IF k = "ran" THEN 1 ELSE storage[k]]]
    ELSE IF code = "storage = 5"
    THEN [status |-> "success", storage |-> NotAMapping]
    ELSE IF code = "loop"
    THEN [status |-> "timeout", storage |-> storage]
    ELSE IF code = "oom"
    THEN [status |-> "crashed", storage |-> storage]
    ELSE [status |-> "error", storage |-> storage]

-----------------------------------------------------------------------------
(* minichain/state.py *)

NewAccount ==
    [balance |-> 0, nonce |-> 0, code |-> NoneStr, storage |-> EmptyStorage]

\* State.__init__: no accounts
EmptyAccounts == [x \in {} |-> NewAccount]

get_balance(accts, address) ==
    IF address \in DOMAIN accts THEN accts[address].balance ELSE 0

get_nonce(accts, address) ==
    IF address \in DOMAIN accts THEN accts[address].nonce ELSE 0

\* State.get_account: creates the account when it is absent
get_account(accts, address) ==
    IF address \in DOMAIN accts THEN accts
    ELSE [x \in DOMAIN accts \cup {address} |->
            IF x = address THEN NewAccount ELSE accts[x]]

\* State.derive_contract_address: sha256(f"{sender}:{nonce}")[:40]
derive_contract_address(sender, nonce) ==
    "c:" \o sender \o ":" \o ToString(nonce)

\* create_contract that ignores initial_balance
create_contract_nobalance(accts, contract_address, code, initial_balance) ==
    [x \in DOMAIN accts \cup {contract_address} |->
        IF x = contract_address
        THEN [balance |-> 0, nonce |-> 0, code |-> code,
              storage |-> EmptyStorage]
        ELSE accts[x]]

\* State.create_contract: (over)writes the account at contract_address
create_contract(accts, contract_address, code, initial_balance) ==
    [x \in DOMAIN accts \cup {contract_address} |->
        IF x = contract_address
        THEN [balance |-> initial_balance, nonce |-> 0, code |-> code,
              storage |-> EmptyStorage]
        ELSE accts[x]]

\* State.update_contract_storage
update_contract_storage(accts, address, new_storage) ==
    [accts EXCEPT ![address].storage = new_storage]

\* "storage = dict(account.get('storage', {}))" ahead of the try block: the
\* exception that leaves ContractMachine.execute, NoneStr when it returns
execute_raises(accts, contract_address) ==
    IF /\ contract_address \in DOMAIN accts
       /\ ~IsMapping(accts[contract_address].storage)
    THEN "TypeError"
    ELSE NoneStr

\* execute committing the storage before it validates the result
execute_dirty(accts, contract_address, sender_address, payload, amount) ==
    LET a1 == get_account(accts, contract_address)
        code == a1[contract_address].code
        storage == a1[contract_address].storage
        msg == [sender |-> sender_address, value |-> amount, data |-> payload]
        result == safe_exec_worker(code, storage, msg)
        committed == update_contract_storage(a1, contract_address,
                                             result.storage)
    IN  IF Falsy(code) THEN [ok |-> FALSE, spawned |-> FALSE, accounts |-> a1]
        ELSE IF ~validate_code_ast(code)
        THEN [ok |-> FALSE, spawned |-> FALSE, accounts |-> a1]
        ELSE IF result.status # "success"
        THEN [ok |-> FALSE, spawned |-> TRUE, accounts |-> a1]
        ELSE IF ~json_serializable(result.storage)
        THEN [ok |-> FALSE, spawned |-> TRUE, accounts |-> committed]
        ELSE [ok |-> TRUE, spawned |-> TRUE, accounts |-> committed]

\* execute handing the worker an empty storage instead of the committed one
execute_fresh(accts, contract_address, sender_address, payload, amount) ==
    LET a1 == get_account(accts, contract_address)
        code == a1[contract_address].code
        msg == [sender |-> sender_address, value |-> amount, data |-> payload]
        result == safe_exec_worker(code, EmptyStorage, msg)
    IN  IF Falsy(code) THEN [ok |-> FALSE, spawned |-> FALSE, accounts |-> a1]
        ELSE IF ~validate_code_ast(code)
        THEN [ok |-> FALSE, spawned |-> FALSE, accounts |-> a1]
        ELSE IF result.status # "success"
        THEN [ok |-> FALSE, spawned |-> TRUE, accounts |-> a1]
        ELSE IF ~json_serializable(result.storage)
        THEN [ok |-> FALSE, spawned |-> TRUE, accounts |-> a1]
        ELSE [ok |-> TRUE, spawned |-> TRUE,
              accounts |-> update_contract_storage(a1, contract_address,
                                                   result.storage)]

\* ContractMachine.execute
execute(accts, contract_address, sender_address, payload, amount) ==
    LET a1 == get_account(accts, contract_address)
        code == a1[contract_address].code
        storage == a1[contract_address].storage
        msg == [sender |-> sender_address, value |-> amount, data |-> payload]
        result == safe_exec_worker(code, storage, msg)
    IN  IF Falsy(code) THEN [ok |-> FALSE, spawned |-> FALSE, accounts |-> a1]
        ELSE IF ~validate_code_ast(code)
        THEN [ok |-> FALSE, spawned |-> FALSE, accounts |-> a1]
        ELSE IF result.status = "timeout"
        THEN [ok |-> FALSE, spawned |-> TRUE, accounts |-> a1]
        ELSE IF result.status = "crashed"
        THEN [ok |-> FALSE, spawned |-> TRUE, accounts |-> a1]
        ELSE IF result.status # "success"
        THEN [ok |-> FALSE, spawned |-> TRUE, accounts |-> a1]
        ELSE IF ~json_serializable(result.storage)
        THEN [ok |-> FALSE, spawned |-> TRUE, accounts |-> a1]
        ELSE [ok |-> TRUE, spawned |-> TRUE,
              accounts |-> update_contract_storage(a1, contract_address,
                                                   result.storage)]

\* verify_transaction_logic without the balance check
verify_transaction_logic_nobalance(accts, tx) ==
    IF ~verify(tx) THEN [ok |-> FALSE, accounts |-> accts]
    ELSE LET a1 == get_account(accts, tx.sender)
         IN  IF a1[tx.sender].nonce # tx.nonce
             THEN [ok |-> FALSE, accounts |-> a1]
             ELSE [ok |-> TRUE, accounts |-> a1]

\* verify_transaction_logic without the nonce check
verify_transaction_logic_nononce(accts, tx) ==
    IF ~verify(tx) THEN [ok |-> FALSE, accounts |-> accts]
    ELSE LET a1 == get_account(accts, tx.sender)
         IN  IF a1[tx.sender].balance < tx.amount
             THEN [ok |-> FALSE, accounts |-> a1]
             ELSE [ok |-> TRUE, accounts |-> a1]

\* State.verify_transaction_logic
verify_transaction_logic(accts, tx) ==
    IF ~verify(tx) THEN [ok |-> FALSE, accounts |-> accts]
    ELSE LET a1 == get_account(accts, tx.sender)
         IN  IF a1[tx.sender].balance < tx.amount
             THEN [ok |-> FALSE, accounts |-> a1]
             ELSE IF a1[tx.sender].nonce # tx.nonce
             THEN [ok |-> FALSE, accounts |-> a1]
             ELSE [ok |-> TRUE, accounts |-> a1]

\* a rollback that refunds the amount and forgets the nonce
RestoreSender_keepnonce(accts, tx) ==
    [accts EXCEPT ![tx.sender].balance = @ + tx.amount]

\* a rollback that forgets the refund
RestoreSender_norefund(accts, tx) ==
    [accts EXCEPT ![tx.sender].nonce = @ - 1]

\* "sender['balance'] += tx.amount; sender['nonce'] -= 1"
RestoreSender(accts, tx) ==
    [accts EXCEPT ![tx.sender].balance = @ + tx.amount,
                  ![tx.sender].nonce = @ - 1]

\* a transfer that creates the receiver account but credits nothing
regular_transfer_nocredit(debited, tx) == get_account(debited, tx.receiver)

\* "receiver = self.get_account(tx.receiver); receiver['balance'] += tx.amount"
regular_transfer(debited, tx) ==
    [get_account(debited, tx.receiver)
        EXCEPT ![tx.receiver].balance = @ + tx.amount]

\* apply_transaction with the call branch of State.apply_tx: data sent to a
\* receiver without code is a plain transfer
apply_transaction_plain(accts, tx) ==
    LET v == verify_transaction_logic(accts, tx)
        debited == [v.accounts EXCEPT ![tx.sender].balance = @ - tx.amount,
                                      ![tx.sender].nonce = @ + 1]
        contract_address == derive_contract_address(tx.sender, tx.nonce)
        withReceiver == get_account(debited, tx.receiver)
        credited == [withReceiver EXCEPT ![tx.receiver].balance =
                                            @ + tx.amount]
        run == execute(credited, tx.receiver, tx.sender, tx.data, tx.amount)
    IN  IF ~v.ok
        THEN [ok |-> FALSE, addr |-> NoneStr, spawned |-> FALSE,
              accounts |-> v.accounts]
        ELSE IF Falsy(tx.receiver)
        THEN IF /\ contract_address \in DOMAIN debited
                /\ ~Falsy(debited[contract_address].code)
             THEN [ok |-> FALSE, addr |-> NoneStr, spawned |-> FALSE,
                   accounts |-> RestoreSender(debited, tx)]
             ELSE [ok |-> TRUE, addr |-> contract_address, spawned |-> FALSE,
                   accounts |-> create_contract(debited, contract_address,
                                                tx.data, tx.amount)]
        ELSE IF ~Falsy(tx.data) /\ ~Falsy(withReceiver[tx.receiver].code)
        THEN IF ~run.ok
             THEN [ok |-> FALSE, addr |-> NoneStr, spawned |-> run.spawned,
                   accounts |-> RestoreSender(
                       [run.accounts EXCEPT ![tx.receiver].balance =
                                                @ - tx.amount], tx)]
             ELSE [ok |-> TRUE, addr |-> NoneStr, spawned |-> run.spawned,
                   accounts |-> run.accounts]
        ELSE [ok |-> TRUE, addr |-> NoneStr, spawned |-> FALSE,
              accounts |-> credited]

\* the exception that leaves State.apply_transaction, NoneStr when it returns:
\* a call of a contract account whose storage cannot be loaded
apply_transaction_raises(accts, tx) ==
    IF /\ verify_transaction_logic(accts, tx).ok
       /\ ~Falsy(tx.receiver)
       /\ ~Falsy(tx.data)
       /\ tx.receiver \in DOMAIN accts
       /\ ~Falsy(accts[tx.receiver].code)
    THEN execute_raises(accts, tx.receiver)
    ELSE NoneStr

\* State.apply_transaction
\* result: ok (truthiness of the return value), addr (the returned contract
\* address of a deployment, else NoneStr), accounts (the state afterwards; when
\* execute raises, the debit and the credit made before it stay)
apply_transaction(accts, tx) ==
    LET v == verify_transaction_logic(accts, tx)
        debited == [v.accounts EXCEPT ![tx.sender].balance = @ - tx.amount,
                                      ![tx.sender].nonce = @ + 1]
        contract_address == derive_contract_address(tx.sender, tx.nonce)
        credited == [debited EXCEPT ![tx.receiver].balance = @ + tx.amount]
        run == execute(credited, tx.receiver, tx.sender, tx.data, tx.amount)
    IN  IF ~v.ok
        THEN [ok |-> FALSE, addr |-> NoneStr, spawned |-> FALSE,
              accounts |-> v.accounts]
        ELSE IF Falsy(tx.receiver)
        THEN IF /\ contract_address \in DOMAIN debited
                /\ ~Falsy(debited[contract_address].code)
             THEN [ok |-> FALSE, addr |-> NoneStr, spawned |-> FALSE,
                   accounts |-> RestoreSender(debited, tx)]
             ELSE [ok |-> TRUE, addr |-> contract_address, spawned |-> FALSE,
                   accounts |-> create_contract(debited, contract_address,
                                                tx.data, tx.amount)]
        ELSE IF ~Falsy(tx.data)
        THEN IF \/ tx.receiver \notin DOMAIN debited
                \/ Falsy(debited[tx.receiver].code)
             THEN [ok |-> FALSE, addr |-> NoneStr, spawned |-> FALSE,
                   accounts |-> RestoreSender(debited, tx)]
             ELSE IF execute_raises(credited, tx.receiver) # NoneStr
             THEN [ok |-> FALSE, addr |-> NoneStr, spawned |-> FALSE,
                   accounts |-> credited]
             ELSE IF ~run.ok
             THEN [ok |-> FALSE, addr |-> NoneStr, spawned |-> run.spawned,
                   accounts |-> RestoreSender(
                       [run.accounts EXCEPT ![tx.receiver].balance =
                                                @ - tx.amount], tx)]
             ELSE [ok |-> TRUE, addr |-> NoneStr, spawned |-> run.spawned,
                   accounts |-> run.accounts]
        ELSE [ok |-> TRUE, addr |-> NoneStr, spawned |-> FALSE,
              accounts |-> regular_transfer(debited, tx)]

\* State.validate_and_apply: amount must be a non-negative integer
validate_and_apply(accts, tx) ==
    IF tx.amount < 0
    THEN [ok |-> FALSE, addr |-> NoneStr, spawned |-> FALSE,
          accounts |-> accts]
    ELSE apply_transaction(accts, tx)

\* State.credit_mining_reward
credit_mining_reward(accts, miner_address, reward) ==
    LET a1 == get_account(accts, miner_address)
    IN  [a1 EXCEPT ![miner_address].balance = @ + reward]

\* State.copy: an independent deep copy
copy(accts) == accts

-----------------------------------------------------------------------------
(* consensus/pow.py and minichain/block.py *)

\* calculate_hash: sha256 of the canonical JSON of the header dictionary
calculate_hash(header) ==
    <<header.index, header.previous_hash, header.merkle_root,
      header.timestamp, header.difficulty, header.nonce>>

\* number of leading "0" characters of a hash string
ZeroMod == 3
HashZeros(h) ==
    IF Len(h) = 1 THEN h[1]
    ELSE IF Len(h) = 6 THEN (h[1] + h[4] + h[6] + Len(h[3])) % ZeroMod
    ELSE 0

\* computed_hash.startswith("0" * difficulty)
StartsWithZeros(h, difficulty) == HashZeros(h) >= difficulty

\* _sha256(json.dumps(tx.to_dict(), sort_keys=True))
TxHash(tx) ==
    <<tx.sender, tx.receiver, tx.amount, tx.nonce, tx.data, tx.timestamp,
      tx.signature>>

\* one level of the tree with an odd last entry carried up as it is
RECURSIVE MerkleLevel_nodup(_)
MerkleLevel_nodup(hs) ==
    IF Len(hs) = 0 THEN <<>>
    ELSE IF Len(hs) = 1 THEN <<hs[1]>>
    ELSE << <<hs[1], hs[2]>> >> \o MerkleLevel_nodup(SubSeq(hs, 3, Len(hs)))

\* one level of the Merkle tree: pair adjacent hashes, duplicating the last
\* one when the level has odd length
RECURSIVE MerkleLevel(_)
MerkleLevel(hs) ==
    IF Len(hs) = 0 THEN <<>>
    ELSE IF Len(hs) = 1 THEN << <<hs[1], hs[1]>> >>
    ELSE << <<hs[1], hs[2]>> >> \o MerkleLevel(SubSeq(hs, 3, Len(hs)))

RECURSIVE MerkleReduce(_)
MerkleReduce(hs) ==
    IF Len(hs) = 1 THEN hs[1] ELSE MerkleReduce(MerkleLevel(hs))

\* _calculate_merkle_root
calculate_merkle_root(txs) ==
    IF Len(txs) = 0 THEN NoneHash
    ELSE MerkleReduce([i \in 1..Len(txs) |-> TxHash(txs[i])])

\* Block.__init__: nonce 0, no hash, Merkle root computed once
Block(index, previous_hash, transactions, timestamp, difficulty) ==
    [index |-> index, previous_hash |-> previous_hash,
     transactions |-> transactions, timestamp |-> timestamp,
     difficulty |-> difficulty, nonce |-> 0, hash |-> NoneHash,
     merkle_root |-> calculate_merkle_root(transactions)]

\* Block.to_header_dict
to_header_dict(b) ==
    [index |-> b.index, previous_hash |-> b.previous_hash,
     merkle_root |-> b.merkle_root, timestamp |-> b.timestamp,
     difficulty |-> b.difficulty, nonce |-> b.nonce]

\* mine_block, the loop of a variant that stores each nonce it tries in the
\* caller's block
RECURSIVE MineLoop_inplace(_, _, _, _, _)
MineLoop_inplace(block, p, header_dict, local_nonce, tried) ==
    LET exceeded(msg, b, t) ==
            [raised |-> "MiningExceededError", msg |-> msg, block |-> b,
             tried |-> t]
    IN  IF local_nonce >= p.max_nonce
        THEN exceeded("Mining failed: max_nonce exceeded", block, tried)
        ELSE IF p.timeout_at # NoneInt /\ local_nonce >= p.timeout_at
        THEN exceeded("Mining failed: timeout exceeded", block, tried)
        ELSE LET header == [header_dict EXCEPT !.nonce = local_nonce]
                 block_hash == calculate_hash(header)
                 attempts == Append(tried, local_nonce)
                 touched == [block EXCEPT !.nonce = local_nonce]
             IN  IF StartsWithZeros(block_hash, p.difficulty)
                 THEN [raised |-> NoneStr, msg |-> "",
                       block |-> [touched EXCEPT !.hash = block_hash],
                       tried |-> attempts]
                 ELSE IF p.cancel_at = local_nonce
                 THEN exceeded("Mining cancelled", touched, attempts)
                 ELSE MineLoop_inplace(touched, p, header, local_nonce + 1,
                                       attempts)

\* mine_block, the "while True" loop (pow.py l.41-75) from local_nonce on.
\* p holds the arguments: difficulty, max_nonce, timeout_at (the first
\* iteration at which the elapsed time exceeds timeout_seconds, NoneInt when
\* no timeout is given or it never elapses) and cancel_at (the nonce for which
\* progress_callback returns False, NoneInt when it never does).
\* result: the exception raised (NoneStr on return), its message, the
\* caller's block afterwards and the nonces that were hashed, in order
RECURSIVE MineLoop(_, _, _, _, _)
MineLoop(block, p, header_dict, local_nonce, tried) ==
    LET exceeded(msg, t) ==
            [raised |-> "MiningExceededError", msg |-> msg, block |-> block,
             tried |-> t]
    IN  IF local_nonce >= p.max_nonce
        THEN exceeded("Mining failed: max_nonce exceeded", tried)
        ELSE IF p.timeout_at # NoneInt /\ local_nonce >= p.timeout_at
        THEN exceeded("Mining failed: timeout exceeded", tried)
        ELSE LET header == [header_dict EXCEPT !.nonce = local_nonce]
                 block_hash == calculate_hash(header)
                 attempts == Append(tried, local_nonce)
             IN  IF StartsWithZeros(block_hash, p.difficulty)
                 THEN [raised |-> NoneStr, msg |-> "",
                       block |-> [block EXCEPT !.nonce = local_nonce,
                                               !.hash = block_hash],
                       tried |-> attempts]
                 ELSE IF p.cancel_at = local_nonce
                 THEN exceeded("Mining cancelled", attempts)
                 ELSE MineLoop(block, p, header, local_nonce + 1, attempts)

\* mine_block that starts the search at nonce 1
mine_block_from1(block, p) ==
    MineLoop(block, p, to_header_dict(block), 1, <<>>)

\* mine_block(block, difficulty, max_nonce, timeout_seconds, progress_callback)
mine_block(block, p) ==
    IF p.difficulty <= 0
    THEN [raised |-> "ValueError",
          msg |-> "Difficulty must be a positive integer.",
          block |-> block, tried |-> <<>>]
    ELSE MineLoop(block, p, to_header_dict(block), 0, <<>>)

\* Block.to_dict: header fields, transactions as dictionaries, hash
block_to_dict(b) ==
    [index |-> b.index, previous_hash |-> b.previous_hash,
     merkle_root |-> b.merkle_root, timestamp |-> b.timestamp,
     difficulty |-> b.difficulty, nonce |-> b.nonce,
     transactions |-> [i \in 1..Len(b.transactions) |->
                          tx_to_dict(b.transactions[i])],
     hash |-> b.hash]

-----------------------------------------------------------------------------
(* minichain/chain.py *)

\* Blockchain._create_genesis_block when the clock reads now: Block() is
\* given no timestamp and takes round(time.time() * 1000)
create_genesis_block_at(now) ==
    [Block(0, GENESIS_PREVIOUS, <<>>, now, NoneInt) EXCEPT !.hash = GENESIS_HASH]

\* the genesis block of the node observed: constructed at clock reading 0
GenesisBlock == create_genesis_block_at(0)

last_block(ch) == ch[Len(ch)]

\* "for tx in ...: if not temp_state.validate_and_apply(tx): return False"
\* result: ok, accounts (the temporary state when the loop stopped)

\* the loop with every transaction validated against the state before the
\* block
RECURSIVE ApplyAll_prestate(_, _)
ApplyAll_prestate(accts, txs) ==
    IF Len(txs) = 0 THEN [ok |-> TRUE, accounts |-> accts]
    ELSE LET r == validate_and_apply(accts, Head(txs))
             rest == ApplyAll_prestate(accts, Tail(txs))
         IN  IF ~r.ok THEN [ok |-> FALSE, accounts |-> r.accounts]
             ELSE IF Len(txs) = 1 THEN r
             ELSE rest

RECURSIVE ApplyAll(_, _)
ApplyAll(accts, txs) ==
    IF Len(txs) = 0 THEN [ok |-> TRUE, accounts |-> accts]
    ELSE LET r == validate_and_apply(accts, Head(txs))
         IN  IF ~r.ok THEN [ok |-> FALSE, accounts |-> r.accounts]
             ELSE ApplyAll(r.accounts, Tail(txs))

\* no proof-of-work check
MeetsDifficulty_skip(h, difficulty) == TRUE

\* "difficulty = block.difficulty or 0; if difficulty > 0: startswith(...)"
MeetsDifficulty(h, difficulty) ==
    LET d == IF difficulty = NoneInt THEN 0 ELSE difficulty
    IN  d > 0 => StartsWithZeros(h, d)

\* add_block validating on the live state instead of a copy
add_block_nocopy(ch, accts, block) ==
    LET computed_hash == calculate_hash(to_header_dict(block))
        temp == ApplyAll(accts, block.transactions)
        rejected(why, state) ==
            [ok |-> FALSE, log |-> why, chain |-> ch, accounts |-> state]
    IN  IF block.previous_hash # ch[Len(ch)].hash
        THEN rejected("Invalid previous hash", accts)
        ELSE IF block.index # ch[Len(ch)].index + 1
        THEN rejected("Invalid index", accts)
        ELSE IF block.hash # computed_hash
        THEN rejected("Invalid hash", accts)
        ELSE IF ~(block.difficulty > 0 =>
                    StartsWithZeros(computed_hash, block.difficulty))
        THEN rejected("Hash does not meet difficulty", accts)
        ELSE IF ~temp.ok
        THEN rejected("Transaction failed validation", temp.accounts)
        ELSE [ok |-> TRUE, log |-> "", chain |-> Append(ch, block),
              accounts |-> temp.accounts]

\* add_block without the index check
add_block_noindex(ch, accts, block) ==
    LET computed_hash == calculate_hash(to_header_dict(block))
        temp == ApplyAll(copy(accts), block.transactions)
        rejected(why) ==
            [ok |-> FALSE, log |-> why, chain |-> ch, accounts |-> accts]
    IN  IF block.previous_hash # last_block(ch).hash
        THEN rejected("Invalid previous hash")
        ELSE IF block.hash # computed_hash
        THEN rejected("Invalid hash")
        ELSE IF ~MeetsDifficulty(computed_hash, block.difficulty)
        THEN rejected("Hash does not meet difficulty")
        ELSE IF ~temp.ok
        THEN rejected("Transaction failed validation")
        ELSE [ok |-> TRUE, log |-> "", chain |-> Append(ch, block),
              accounts |-> temp.accounts]

\* Blockchain.add_block
\* result: ok, log (the rejection logged), chain and accounts afterwards
add_block(ch, accts, block) ==
    LET computed_hash == calculate_hash(to_header_dict(block))
        temp == ApplyAll(copy(accts), block.transactions)
        rejected(why) ==
            [ok |-> FALSE, log |-> why, chain |-> ch, accounts |-> accts]
    IN  IF block.previous_hash # last_block(ch).hash
        THEN rejected("Invalid previous hash")
        ELSE IF block.index # last_block(ch).index + 1
        THEN rejected("Invalid index")
        ELSE IF block.hash # computed_hash
        THEN rejected("Invalid hash")
        ELSE IF ~MeetsDifficulty(computed_hash, block.difficulty)
        THEN rejected("Hash does not meet difficulty")
        ELSE IF ~temp.ok
        THEN rejected("Transaction failed validation")
        ELSE [ok |-> TRUE, log |-> "", chain |-> Append(ch, block),
              accounts |-> temp.accounts]

\* the Block that validate_chain / replace_chain rebuild from a dictionary
RebuildTransactions(block_data) ==
    [i \in 1..Len(block_data.transactions) |->
        TransactionFromKwargs(block_data.transactions[i])]

RebuildBlock(block_data) ==
    [Block(block_data.index, block_data.previous_hash,
           RebuildTransactions(block_data), block_data.timestamp,
           block_data.difficulty)
       EXCEPT !.nonce = block_data.nonce]

\* an element of a received list that is not a dictionary (None, a string):
\* it has no method "get"
NotADict == [type |-> "NoneType"]
IsDict(x) == "type" \notin DOMAIN x

\* Blockchain.validate_chain, the loop from block i on with temp_state.
\* result: "True", "False", or the exception that leaves the function.  The
\* two linkage checks (l.134-142) stand before the try block.
RECURSIVE ValidateFrom(_, _, _)
ValidateFrom(chain_data, i, temp_state) ==
    IF i > Len(chain_data) THEN "True"
    ELSE IF ~IsDict(chain_data[i]) THEN "AttributeError"
    ELSE LET block_data == chain_data[i]
             prev_block == chain_data[i - 1]
             block == RebuildBlock(block_data)
             computed_hash == calculate_hash(to_header_dict(block))
             r == ApplyAll(temp_state, block.transactions)
         IN  IF block_data.index # prev_block.index + 1 THEN "False"
             ELSE IF block_data.previous_hash # prev_block.hash THEN "False"
             ELSE IF block_data.hash # computed_hash THEN "False"
             ELSE IF ~MeetsDifficulty(computed_hash, block_data.difficulty)
             THEN "False"
             ELSE IF ~r.ok THEN "False"
             ELSE ValidateFrom(chain_data, i + 1, r.accounts)

\* Blockchain.validate_chain with the exceptions it lets through
ValidateOutcome(chain_data) ==
    IF Len(chain_data) = 0 THEN "False"
    ELSE IF ~IsDict(chain_data[1]) THEN "AttributeError"
    ELSE IF chain_data[1].hash # GENESIS_HASH THEN "False"
    ELSE IF chain_data[1].index # 0 THEN "False"
    ELSE ValidateFrom(chain_data, 2, EmptyAccounts)

\* Blockchain.validate_chain returned True
validate_chain(chain_data) == ValidateOutcome(chain_data) = "True"

\* the exception that leaves replace_chain (NoneStr when it returns): the
\* calls of validate_chain at l.206 and l.211 are not guarded
replace_chain_raises(ch, chain_data) ==
    IF Len(chain_data) < Len(ch) THEN NoneStr
    ELSE IF ValidateOutcome(chain_data) \in {"True", "False"} THEN NoneStr
    ELSE ValidateOutcome(chain_data)

\* Blockchain.replace_chain, the rebuild loop from block i on
\* result: ok, chain (new_chain), accounts (new_state)
RECURSIVE RebuildFrom(_, _, _, _)
RebuildFrom(chain_data, i, new_chain, new_state) ==
    IF i > Len(chain_data)
    THEN [ok |-> TRUE, chain |-> new_chain, accounts |-> new_state]
    ELSE LET block_data == chain_data[i]
             block == [RebuildBlock(block_data)
                         EXCEPT !.hash = block_data.hash]
             r == ApplyAll(new_state, block.transactions)
         IN  IF ~r.ok
             THEN [ok |-> FALSE, chain |-> new_chain, accounts |-> new_state]
             ELSE RebuildFrom(chain_data, i + 1, Append(new_chain, block),
                              r.accounts)

\* replace_chain adopting a valid candidate of the same length as well
replace_chain_equal(ch, accts, chain_data) ==
    LET unchanged(result, msg) ==
            [ok |-> result, log |-> msg, chain |-> ch, accounts |-> accts]
        rebuilt == RebuildFrom(chain_data, 2, <<GenesisBlock>>, EmptyAccounts)
    IN  IF Len(chain_data) < Len(ch)
        THEN unchanged(FALSE, "Received chain shorter than ours")
        ELSE IF ~validate_chain(chain_data)
        THEN unchanged(FALSE, "Received chain failed validation")
        ELSE IF ~rebuilt.ok
        THEN unchanged(FALSE, "Chain rebuild failed")
        ELSE [ok |-> TRUE, log |-> "Chain replaced successfully",
              chain |-> rebuilt.chain, accounts |-> rebuilt.accounts]

\* replace_chain swapping the chain and keeping the old state
replace_chain_stale(ch, accts, chain_data) ==
    LET unchanged(result, msg) ==
            [ok |-> result, log |-> msg, chain |-> ch, accounts |-> accts]
        rebuilt == RebuildFrom(chain_data, 2, <<GenesisBlock>>, EmptyAccounts)
    IN  IF Len(chain_data) < Len(ch)
        THEN unchanged(FALSE, "Received chain shorter than ours")
        ELSE IF Len(chain_data) = Len(ch)
        THEN IF validate_chain(chain_data)
             THEN unchanged(TRUE, "Received chain same length as ours and valid")
             ELSE unchanged(FALSE, "")
        ELSE IF ~validate_chain(chain_data)
        THEN unchanged(FALSE, "Received chain failed validation")
        ELSE IF ~rebuilt.ok
        THEN unchanged(FALSE, "Chain rebuild failed")
        ELSE [ok |-> TRUE, log |-> "Chain replaced successfully",
              chain |-> rebuilt.chain, accounts |-> accts]

\* Blockchain.replace_chain
\* result: ok (the return value), log (the message logged), chain and
\* accounts afterwards
replace_chain(ch, accts, chain_data) ==
    LET unchanged(result, msg) ==
            [ok |-> result, log |-> msg, chain |-> ch, accounts |-> accts]
        rebuilt == RebuildFrom(chain_data, 2, <<GenesisBlock>>, EmptyAccounts)
    IN  IF Len(chain_data) < Len(ch)
        THEN unchanged(FALSE, "Received chain shorter than ours")
        ELSE IF Len(chain_data) = Len(ch)
        THEN IF validate_chain(chain_data)
             THEN unchanged(TRUE, "Received chain same length as ours and valid")
             ELSE unchanged(FALSE, "")
        ELSE IF ~validate_chain(chain_data)
        THEN unchanged(FALSE, "Received chain failed validation")
        ELSE IF ~rebuilt.ok
        THEN unchanged(FALSE, "Chain rebuild failed")
        ELSE [ok |-> TRUE, log |-> "Chain replaced successfully",
              chain |-> rebuilt.chain, accounts |-> rebuilt.accounts]

\* Blockchain.to_dict_list
to_dict_list(ch) == [i \in 1..Len(ch) |-> block_to_dict(ch[i])]

-----------------------------------------------------------------------------
(* Inputs: the transactions, blocks and candidate chains handed to the     *)
(* operations                                                              *)

Amounts == {0, 1}
Timestamps == {0, 1}        \* seconds, as passed to Transaction()
BlockTime == 0              \* block timestamp

\* a transaction built and signed by the owner of the sender key
SignedTx(sender, receiver, amount, nonce, data, timestamp) ==
    sign(Transaction(sender, receiver, amount, nonce, data, NoSignature,
                     timestamp), sender)

Contract0 == derive_contract_address(Wallet, 0)

Transfers ==
    {SignedTx(Wallet, "b", amt, n, NoneStr, 0) :
        amt \in Amounts, n \in 0..MaxNonce}
    \cup {SignedTx("b", Wallet, 0, 0, NoneStr, 0)}

Deploys == {SignedTx(Wallet, NoneStr, 0, 0, code, 0) : code \in {"inc", "boom"}}

Calls ==
    {SignedTx(Wallet, Contract0, 0, 1, "increment", 0),
     SignedTx("b", Contract0, 0, 0, "increment", 0)}

\* created one second later: timestamp 1000 ms
LateTx == SignedTx(Wallet, "b", 0, 0, NoneStr, 1)

UnsignedTx == Transaction(Wallet, "b", 0, 0, NoneStr, NoSignature, 0)

\* signed for amount 0, amount changed afterwards
TamperedTx == [SignedTx(Wallet, "b", 0, 0, NoneStr, 0) EXCEPT !.amount = 1]

CoinbaseTxs ==
    {Transaction(COINBASE_SENDER, Wallet, amt, 0, NoneStr, NoSignature, 0) :
        amt \in {0, DEFAULT_MINING_REWARD}}

\* more than one mining reward
BigTx == SignedTx(Wallet, "b", DEFAULT_MINING_REWARD + 1, 0, NoneStr, 0)

\* a signed transfer of a negative amount (the constructor takes any amount)
NegativeTx == SignedTx(Wallet, "b", -1, 0, NoneStr, 0)

\* deployments of contracts whose calls fail in the sandbox, and a call that
\* sends one coin to the contract
SandboxTxs ==
    {SignedTx(Wallet, NoneStr, 0, 0, code, 0) :
        code \in {"set", "loop", "oom"} \cup ForbiddenCodes}
    \cup {SignedTx(Wallet, Contract0, 1, 1, "increment", 0)}

\* transfers to the user "b" that carry data
DataTxs ==
    {SignedTx(Wallet, "b", amt, n, "increment", 0) :
        amt \in 0..1, n \in 0..MaxNonce}

AllTxs ==
    Transfers \cup Deploys \cup Calls \cup CoinbaseTxs
    \cup {LateTx, UnsignedTx, TamperedTx, BigTx, NegativeTx}

\* transactions that appear in two-transaction blocks, and that a node also
\* applies to its live state directly
PairTxs ==
    {SignedTx(Wallet, "b", 0, 0, NoneStr, 0),
     SignedTx(Wallet, "b", 1, 1, NoneStr, 0),
     SignedTx(Wallet, NoneStr, 0, 0, "inc", 0),
     SignedTx(Wallet, Contract0, 0, 1, "increment", 0)}

TxLists ==
    {<<>>} \cup {<<t>> : t \in AllTxs}
    \cup {<<t1, t2>> : t1 \in PairTxs, t2 \in PairTxs}

\* a block with the given nonce whose hash field is its header hash
SealedBlock(index, previous_hash, transactions, difficulty, nonce) ==
    LET b == [Block(index, previous_hash, transactions, BlockTime, difficulty)
                EXCEPT !.nonce = nonce]
    IN  [b EXCEPT !.hash = calculate_hash(to_header_dict(b))]

\* the blocks offered to add_block on top of chain ch
BlockInputs(ch) ==
    LET tip == last_block(ch)
        good == SealedBlock(tip.index + 1, tip.hash, <<>>, NoneInt, 0)
    IN  {SealedBlock(tip.index + 1, tip.hash, txs, NoneInt, 0) :
            txs \in TxLists}
        \cup {SealedBlock(tip.index + 1, tip.hash, <<>>, d, n) :
                d \in 0..2, n \in 0..MaxPowNonce}
        \cup {SealedBlock(tip.index + 1, GENESIS_PREVIOUS, <<>>, NoneInt, 0),
              SealedBlock(tip.index + 2, tip.hash, <<>>, NoneInt, 0),
              [good EXCEPT !.hash = NoneHash],
              [good EXCEPT !.nonce = 1]}

\* the genesis dictionary every node exports
GenesisDict == block_to_dict(GenesisBlock)

\* the dictionaries a peer may send as the successor of prev
NextDicts(prev) ==
    LET t0 == SignedTx(Wallet, "b", 0, 0, NoneStr, 0)
        t1 == LateTx
        mk(txs, d) ==
            block_to_dict(SealedBlock(prev.index + 1, prev.hash, txs, d, 0))
    IN  {mk(<<>>, NoneInt), mk(<<>>, 2), mk(<<t0>>, NoneInt),
         mk(<<t1>>, NoneInt),
         [mk(<<t0>>, NoneInt) EXCEPT !.transactions = <<TamperedTx>>],
         [mk(<<>>, NoneInt) EXCEPT !.previous_hash = GENESIS_PREVIOUS]}

RECURSIVE ChainsOfLength(_)
ChainsOfLength(n) ==
    IF n = 0 THEN {<<>>}
    ELSE IF n = 1
    THEN {<<GenesisDict>>, <<[GenesisDict EXCEPT !.index = 1]>>}
    ELSE UNION {{Append(c, d) : d \in NextDicts(c[Len(c)])} :
                   c \in ChainsOfLength(n - 1)}

\* the candidate chains handed to replace_chain
CandidateChains == UNION {ChainsOfLength(n) : n \in 0..MaxChain}

\* the candidates that validate_chain accepts
ValidChains == {c \in CandidateChains : validate_chain(c)}

\* a transaction dictionary with one field changed
TamperTx(d) ==
    {[d EXCEPT !.amount = d.amount + 1],
     [d EXCEPT !.receiver = Wallet],
     [d EXCEPT !.nonce = d.nonce + 1],
     [d EXCEPT !.data = "x"],
     [d EXCEPT !.timestamp = d.timestamp + 1],
     [d EXCEPT !.signature = NoSignature],
     [d EXCEPT !.signature = [signer |-> "b", payload |-> hash_payload(d)]],
     [d EXCEPT !.sender = "b"],
     [d EXCEPT !.sender = COINBASE_SENDER]}

\* transaction j of block i of chain c changed after the block was mined
TamperAfterMining(c) ==
    {[c EXCEPT ![i].transactions[j] = d] :
        <<i, j, d>> \in UNION {UNION {{<<i, j, d>> :
            d \in TamperTx(c[i].transactions[j])} :
            j \in 1..Len(c[i].transactions)} : i \in 2..Len(c)}}

\* a signed transaction of the last block changed after signing (sender kept,
\* so the transaction still needs its signature), and the block mined anew
TamperAfterSigning(c) ==
    LET i == Len(c)
        reseal(bd) ==
            [bd EXCEPT !.hash = calculate_hash(to_header_dict(RebuildBlock(bd)))]
    IN  IF i < 2 THEN {}
        ELSE {[c EXCEPT ![i] = reseal([c[i] EXCEPT !.transactions[j] = d])] :
                <<j, d>> \in UNION {{<<j, d>> :
                    d \in {t \in TamperTx(c[i].transactions[j]) :
                              ~is_coinbase(t)}} :
                    j \in 1..Len(c[i].transactions)}}

\* received lists with an element that is not a dictionary: alone, after
\* the genesis, after a valid block, and after a block that fails validation
IllTypedChains ==
    {<<NotADict>>, <<GenesisDict, NotADict>>}
    \cup {Append(c, NotADict) :
            c \in {x \in CandidateChains : Len(x) = 2 /\ x[1] = GenesisDict}}

TamperedChains ==
    UNION {TamperAfterMining(c) \cup TamperAfterSigning(c) : c \in ValidChains}

-----------------------------------------------------------------------------
(* State machine: the operations called one at a time *)

Writers == {1, 2}        \* threads calling add_block: miner, peer handler
Reader == 0              \* the thread running cmd_status
Threads == Writers \cup {Reader}
Idle == [op |-> "idle", arg |-> <<>>, ok |-> FALSE, log |-> ""]
NoLocal == [block |-> <<>>, temp |-> EmptyAccounts, result |-> FALSE,
            log |-> ""]
NoObs == [state |-> EmptyAccounts, height |-> 0]
EmptyPool == [pending |-> <<>>, seen |-> {}]

ThreadsIdle == lock = 0 /\ \A t \in Threads : pc[t] = "idle"

\* the (sender, nonce) pairs of the non-coinbase transactions of a list
Pairs(txs) ==
    {<<txs[i].sender, txs[i].nonce>> :
        i \in {j \in 1..Len(txs) : ~is_coinbase(txs[j])}}

ChainPairs(ch) == UNION {Pairs(ch[i].transactions) : i \in 1..Len(ch)}

\* MiniChainCLI.__init__: "self.nonce_map = {}"
EmptyNonceMap == [x \in {} |-> 0]

\* the threads that call the Mempool: the console and a peer connection
PoolThreads == {1, 2}

\* a thread outside every Mempool method
NoCall ==
    [pc |-> "idle", tx |-> UnsignedTx, tx_id |-> NoneHash, txs |-> <<>>,
     result |-> NoneStr]

Init ==
    /\ chain = <<GenesisBlock>>
    /\ accounts = EmptyAccounts
    /\ ret = Idle
    /\ applied = [ever |-> {}, live |-> {}]
    /\ lock = 0
    /\ pc = [t \in Threads |-> "idle"]
    /\ local = [t \in Writers |-> NoLocal]
    /\ obs = NoObs
    /\ mempool = EmptyPool
    /\ nonce_map = EmptyNonceMap
    /\ pool_lock = 0
    /\ calls = [t \in PoolThreads |-> NoCall]

\* blockchain.add_block(block) called and completed
AddBlock(block) ==
    /\ ThreadsIdle
    /\ ret = Idle
    /\ Len(chain) < MaxChain
    /\ \E r \in {add_block(chain, accounts, block)} :
          /\ chain' = r.chain
          /\ accounts' = r.accounts
          /\ ret' = [op |-> "add_block", arg |-> block, ok |-> r.ok,
                     log |-> r.log]
          /\ \E new \in {IF r.ok THEN Pairs(block.transactions) ELSE {}} :
                applied' = [ever |-> applied.ever \cup new,
                            live |-> applied.live \cup new]
    /\ UNCHANGED <<lock, pc, local, obs, mempool, nonce_map, pool_lock, calls>>

\* blockchain.replace_chain(chain_data) called and completed
ReplaceChain(chain_data) ==
    /\ ThreadsIdle
    /\ ret = Idle
    /\ \E r \in {replace_chain(chain, accounts, chain_data)} :
          /\ chain' = r.chain
          /\ accounts' = r.accounts
          /\ ret' = [op |-> "replace_chain", arg |-> chain_data, ok |-> r.ok,
                     log |-> r.log,
                     raised |-> replace_chain_raises(chain, chain_data)]
          /\ applied' = IF r.log = "Chain replaced successfully"
                        THEN [ever |-> applied.ever \cup ChainPairs(r.chain),
                              live |-> ChainPairs(r.chain)]
                        ELSE applied
    /\ UNCHANGED <<lock, pc, local, obs, mempool, nonce_map, pool_lock, calls>>

\* state.apply_transaction(tx) called on the live state and completed
ApplyTransaction(tx) ==
    /\ ThreadsIdle
    /\ ret = Idle
    /\ \E r \in {apply_transaction(accounts, tx)} :
          /\ accounts' = r.accounts
          /\ ret' = [op |-> "apply_transaction", arg |-> tx, ok |-> r.ok,
                     log |-> r.addr, spawned |-> r.spawned,
                     raised |-> apply_transaction_raises(accounts, tx)]
          /\ \E new \in {IF r.ok THEN Pairs(<<tx>>) ELSE {}} :
                applied' = [ever |-> applied.ever \cup new,
                            live |-> applied.live \cup new]
    /\ UNCHANGED <<chain, lock, pc, local, obs, mempool, nonce_map, pool_lock, calls>>

\* state.credit_mining_reward(miner): the node credits its wallet
CreditMiningReward(miner) ==
    /\ ThreadsIdle
    /\ ret = Idle
    /\ get_balance(accounts, miner) + DEFAULT_MINING_REWARD
          <= MaxCredits * DEFAULT_MINING_REWARD
    /\ accounts' = credit_mining_reward(accounts, miner, DEFAULT_MINING_REWARD)
    /\ UNCHANGED <<chain, ret, applied, lock, pc, local, obs, mempool, nonce_map, pool_lock, calls>>

\* the caller has inspected the result of the call and goes on
Return ==
    /\ ret # Idle
    /\ ret' = Idle
    /\ UNCHANGED <<chain, accounts, applied, lock, pc, local, obs, mempool, nonce_map, pool_lock, calls>>

\* a node that extends its chain and synchronises with peers
Next ==
    \/ /\ ret = Idle
       /\ \/ \E block \in BlockInputs(chain) : AddBlock(block)
          \/ \E chain_data \in CandidateChains : ReplaceChain(chain_data)
    \/ Return

\* the miner (cmd_mine) builds the block it is going to mine on the tip
NewBlock(transactions, timestamp, difficulty) ==
    /\ ThreadsIdle
    /\ ret = Idle
    /\ local' = [local EXCEPT ![1].block =
                    Block(last_block(chain).index + 1, last_block(chain).hash,
                          transactions, timestamp, difficulty)]
    /\ UNCHANGED <<chain, accounts, ret, applied, lock, pc, obs, mempool, nonce_map, pool_lock, calls>>

\* mine_block called on the miner's block and completed
MineBlock(p) ==
    /\ ThreadsIdle
    /\ ret = Idle
    /\ local[1].block # <<>>
    /\ \E r \in {mine_block(local[1].block, p)} :
          /\ local' = [local EXCEPT ![1].block = r.block]
          /\ ret' = [op |-> "mine_block", arg |-> p,
                     ok |-> r.raised = NoneStr, log |-> r.msg,
                     raised |-> r.raised, tried |-> r.tried]
    /\ UNCHANGED <<chain, accounts, applied, lock, pc, obs, mempool, nonce_map, pool_lock, calls>>

\* the arguments of the calls of mine_block
MineArgs ==
    [difficulty : 0..ZeroMod, max_nonce : 0..MaxAttempts,
     timeout_at : {NoneInt} \cup 0..(MaxAttempts - 1),
     cancel_at : {NoneInt} \cup 0..(MaxAttempts - 1)]

\* a miner that builds blocks and mines them, again after a failure
NextPow ==
    \/ \E txs \in {<<>>, <<SignedTx(Wallet, "b", 0, 0, NoneStr, 0)>>},
          timestamp \in 0..1, difficulty \in {NoneInt, 1, 2} :
          NewBlock(txs, timestamp, difficulty)
    \/ \E p \in MineArgs : MineBlock(p)
    \/ Return

SpecPow == Init /\ [][NextPow]_vars

\* "self.state.accounts[collision_addr] = {...}": an account written
\* straight into the accounts dictionary, as test_redeploy_same_address does
SetAccount(address, account) ==
    /\ ThreadsIdle
    /\ ret = Idle
    /\ address \notin DOMAIN accounts
    /\ accounts' = [x \in DOMAIN accounts \cup {address} |->
                       IF x = address THEN account ELSE accounts[x]]
    /\ UNCHANGED <<chain, ret, applied, lock, pc, local, obs, mempool, nonce_map, pool_lock, calls>>

\* deployments with and without funds and code, at both nonces
DeployTxs ==
    {SignedTx(Wallet, NoneStr, amt, n, code, 0) :
        amt \in 0..1, n \in 0..MaxNonce, code \in {"inc", NoneStr}}

\* the accounts found at a contract address before the deployment: the two
\* contracts of the collision test, and an account without code that was
\* paid five coins
ExistingAccounts ==
    {[balance |-> 0, nonce |-> 0, code |-> "existing_code",
      storage |-> EmptyStorage],
     [balance |-> 5, nonce |-> 0, code |-> "existing_code",
      storage |-> [k \in {"x"} |-> 1]],
     [balance |-> 5, nonce |-> 0, code |-> NoneStr,
      storage |-> EmptyStorage]}

\* a wallet that deploys contracts on a state in which addresses may be taken
NextDeploy ==
    \/ \E tx \in DeployTxs : ApplyTransaction(tx)
    \/ CreditMiningReward(Wallet)
    \/ \E n \in 0..MaxNonce, account \in ExistingAccounts :
          SetAccount(derive_contract_address(Wallet, n), account)
    \/ Return

SpecDeploy == Init /\ [][NextDeploy]_vars

\* the deployment of the counter contract and calls of it by both users
CounterTxs ==
    {SignedTx(Wallet, NoneStr, 0, 0, "inc", 0)}
    \cup {SignedTx(sender, Contract0, amt, n, "increment", 0) :
            sender \in Users, amt \in 0..1, n \in 0..(MaxNonce + 1)}

\* users that deploy the counter contract and call it
NextCounter ==
    \/ \E tx \in CounterTxs : ApplyTransaction(tx)
    \/ CreditMiningReward(Wallet)
    \/ Return

SpecCounter == Init /\ [][NextCounter]_vars

\* the deployment of a contract that rebinds the name storage, or of the
\* counter contract, and calls of it by both users
RebindTxs ==
    {SignedTx(Wallet, NoneStr, 0, 0, code, 0) : code \in {"storage = 5", "inc"}}
    \cup {SignedTx(sender, Contract0, amt, n, "increment", 0) :
            sender \in Users, amt \in 0..1, n \in 0..(MaxNonce + 1)}

NextRebind ==
    \/ \E tx \in RebindTxs : ApplyTransaction(tx)
    \/ CreditMiningReward(Wallet)
    \/ Return

SpecRebind == Init /\ [][NextRebind]_vars

-----------------------------------------------------------------------------
(* ContractMachine.execute step by step: the node thread and the worker *)

\* the thread that applies the call; local[Executor].block holds the
\* transaction and local[Executor].log the state of the worker process
Executor == 1

\* a call that reaches "p.start()": it passes the transaction checks, the
\* receiver holds code and the code passes the static check
ReachesWorker(tx) ==
    /\ ~Falsy(tx.receiver)
    /\ ~Falsy(tx.data)
    /\ verify_transaction_logic(accounts, tx).ok
    /\ tx.receiver \in DOMAIN accounts
    /\ ~Falsy(accounts[tx.receiver].code)
    /\ validate_code_ast(accounts[tx.receiver].code)

\* apply_transaction up to the call of execute (sender debited, contract
\* credited) and execute up to "p.start()"
StartWorker(tx) ==
    /\ ThreadsIdle
    /\ ret = Idle
    /\ ReachesWorker(tx)
    /\ accounts' =
          [verify_transaction_logic(accounts, tx).accounts
              EXCEPT ![tx.sender].balance = @ - tx.amount,
                     ![tx.sender].nonce = @ + 1,
                     ![tx.receiver].balance = @ + tx.amount]
    /\ pc' = [pc EXCEPT ![Executor] = "join"]
    /\ local' = [local EXCEPT ![Executor] =
                    [block |-> tx, temp |-> EmptyAccounts, result |-> FALSE,
                     log |-> "running"]]
    /\ UNCHANGED <<chain, ret, applied, lock, obs, mempool, nonce_map, pool_lock, calls>>

\* what the worker does with the contract called by the executor
WorkerResult ==
    LET tx == local[Executor].block
    IN  safe_exec_worker(accounts[tx.receiver].code,
                         accounts[tx.receiver].storage,
                         [sender |-> tx.sender, value |-> tx.amount,
                          data |-> tx.data])

\* the worker process ends: with a result on the queue, or without one when
\* it is killed by its resource limits; a looping contract never ends
WorkerExits ==
    /\ pc[Executor] \in {"join", "is_alive"}
    /\ local[Executor].log = "running"
    /\ WorkerResult.status # "timeout"
    /\ local' = [local EXCEPT ![Executor].log =
                    IF WorkerResult.status = "crashed"
                    THEN "exited without result" ELSE "exited with result"]
    /\ UNCHANGED <<chain, accounts, ret, applied, lock, pc, obs, mempool, nonce_map, pool_lock, calls>>

\* a join without a timeout: it returns only once the worker has ended
Join_notimeout ==
    /\ pc[Executor] = "join"
    /\ local[Executor].log # "running"
    /\ pc' = [pc EXCEPT ![Executor] = "is_alive"]
    /\ UNCHANGED <<chain, accounts, ret, applied, lock, local, obs, mempool, nonce_map, pool_lock, calls>>

\* "p.join(timeout=2)" returns: the worker has ended or two seconds passed
Join ==
    /\ pc[Executor] = "join"
    /\ pc' = [pc EXCEPT ![Executor] = "is_alive"]
    /\ UNCHANGED <<chain, accounts, ret, applied, lock, local, obs, mempool, nonce_map, pool_lock, calls>>

\* "if p.is_alive():"
IsAlive ==
    /\ pc[Executor] = "is_alive"
    /\ pc' = [pc EXCEPT ![Executor] =
                 IF local[Executor].log = "running" THEN "kill" ELSE "check"]
    /\ UNCHANGED <<chain, accounts, ret, applied, lock, local, obs, mempool, nonce_map, pool_lock, calls>>

\* the rollback of apply_transaction after execute returned False
RolledBack(tx) ==
    RestoreSender([accounts EXCEPT ![tx.receiver].balance = @ - tx.amount],
                  tx)

\* "p.kill(); p.join(); return False", and apply_transaction rolls back
Kill ==
    /\ pc[Executor] = "kill"
    /\ \E tx \in {local[Executor].block} :
          /\ accounts' = RolledBack(tx)
          /\ ret' = [op |-> "apply_transaction", arg |-> tx, ok |-> FALSE,
                     log |-> "Contract execution timed out",
                     spawned |-> TRUE]
    /\ pc' = [pc EXCEPT ![Executor] = "idle"]
    /\ local' = [local EXCEPT ![Executor] = NoLocal]
    /\ UNCHANGED <<chain, applied, lock, obs, mempool, nonce_map, pool_lock, calls>>

\* the worker has ended: "queue.empty()", the status of the result, the
\* json.dumps of the storage, the commit; apply_transaction rolls back when
\* execute returned False
Check ==
    /\ pc[Executor] = "check"
    /\ \E tx \in {local[Executor].block} :
       \E r \in {execute(accounts, tx.receiver, tx.sender, tx.data,
                         tx.amount)} :
          /\ accounts' = IF r.ok THEN r.accounts ELSE RolledBack(tx)
          /\ ret' = [op |-> "apply_transaction", arg |-> tx, ok |-> r.ok,
                     log |-> IF local[Executor].log = "exited without result"
                             THEN "Contract execution crashed without result"
                             ELSE NoneStr,
                     spawned |-> TRUE]
          /\ \E new \in {IF r.ok THEN Pairs(<<tx>>) ELSE {}} :
                applied' = [ever |-> applied.ever \cup new,
                            live |-> applied.live \cup new]
    /\ pc' = [pc EXCEPT ![Executor] = "idle"]
    /\ local' = [local EXCEPT ![Executor] = NoLocal]
    /\ UNCHANGED <<chain, lock, obs, mempool, nonce_map, pool_lock, calls>>

\* contracts of every behaviour are deployed, funded and called
SandboxCalls ==
    {SignedTx(sender, Contract0, amt, n, "increment", 0) :
        sender \in Users, amt \in 0..1, n \in 0..MaxNonce}

NextSandbox ==
    \/ \E code \in {"inc", "set", "loop", "oom", "boom"} :
          ApplyTransaction(SignedTx(Wallet, NoneStr, 0, 0, code, 0))
    \/ CreditMiningReward(Wallet)
    \/ \E tx \in SandboxCalls : StartWorker(tx)
    \/ WorkerExits
    \/ Join
    \/ IsAlive
    \/ Kill
    \/ Check
    \/ Return

\* the executor thread keeps running and its clock advances; nothing makes
\* the worker end
SpecSandbox ==
    /\ Init
    /\ [][NextSandbox]_vars
    /\ WF_vars(Join)
    /\ WF_vars(IsAlive)
    /\ WF_vars(Kill)
    /\ WF_vars(Check)

\* the peer handler also receives chains with a tampered transaction
NextPeer ==
    \/ \E block \in BlockInputs(chain) : AddBlock(block)
    \/ \E chain_data \in ValidChains \cup TamperedChains \cup IllTypedChains :
          ReplaceChain(chain_data)
    \/ Return

SpecPeer == Init /\ [][NextPeer]_vars

\* Blockchain(): the node is started again (cli.py:60, main.py:84) when the
\* clock reads now; chain and state are new objects
Construct(now) ==
    /\ ret = Idle
    /\ ThreadsIdle
    /\ chain' = <<create_genesis_block_at(now)>>
    /\ accounts' = EmptyAccounts
    /\ applied' = [applied EXCEPT !.live = {}]
    /\ ret' = [op |-> "Blockchain", arg |-> now, ok |-> TRUE, log |-> ""]
    /\ UNCHANGED <<lock, pc, local, obs, mempool, nonce_map, pool_lock, calls>>

\* a node that extends its chain and is restarted at any time
NextGenesis ==
    \/ \E now \in 0..MaxClock : Construct(now)
    \/ \E block \in BlockInputs(chain) : AddBlock(block)
    \/ Return

SpecGenesis == Init /\ [][NextGenesis]_vars

\* transactions a block under construction is filled with
MerkleTxs ==
    {SignedTx(Wallet, "b", 1, 0, NoneStr, 0),
     SignedTx("b", Wallet, 0, 0, NoneStr, 0),
     Transaction(Wallet, "b", 1, 1, NoneStr, NoSignature, 0)}

RECURSIVE SeqsUpTo(_, _)
SeqsUpTo(S, n) ==
    IF n = 0 THEN {<<>>}
    ELSE LET shorter == SeqsUpTo(S, n - 1)
         IN  shorter \cup {Append(q, x) : q \in {y \in shorter : Len(y) = n - 1},
                                          x \in S}

\* Block(...) constructed over any transaction list
NextMerkle ==
    \E transactions \in SeqsUpTo(MerkleTxs, MaxTxs) :
        NewBlock(transactions, BlockTime, NoneInt)

SpecMerkle == Init /\ [][NextMerkle]_vars

\* one field of a transaction object assigned a different value
SetField(tx, field, v) == [tx EXCEPT ![field] = v]

FieldValues(field) ==
    CASE field = "sender"    -> Users \cup {COINBASE_SENDER, MalformedKey}
      [] field = "receiver"  -> {"a", "b", NoneStr}
      [] field = "amount"    -> 0..2
      [] field = "nonce"     -> 0..(MaxNonce + 1)
      [] field = "data"      -> {NoneStr, "inc", "x"}
      [] field = "timestamp" -> {0, 1000, 2000}

SignedFields ==
    {"sender", "receiver", "amount", "nonce", "data", "timestamp"}

\* transactions as constructed, before signing
PlainTxs ==
    {Transaction(sender, receiver, amount, 0, data, NoSignature, timestamp) :
        sender \in Users \cup {MalformedKey}, receiver \in {"b", NoneStr},
        amount \in 0..1, data \in {NoneStr, "inc"}, timestamp \in 0..1}

\* tx signed with key (NoneStr: not signed, "zz": given a signature that is
\* no hex string)
Signed(tx, key) ==
    IF key = NoneStr THEN tx
    ELSE IF key = "zz" THEN [tx EXCEPT !.signature = MalformedSignature]
    ELSE sign_with_hex(tx, key)

\* what happened to a transaction before verify is called: signed with a
\* key, then one signed field assigned a different value (NoneStr: none);
\* after is the object verify is called on
Histories ==
    UNION {UNION {
        {[tx |-> tx, key |-> key, field |-> NoneStr,
          after |-> Signed(tx, key)]}
        \cup UNION {{[tx |-> tx, key |-> key, field |-> field,
                      after |-> SetField(Signed(tx, key), field, v)] :
                        v \in FieldValues(field) \ {tx[field]}} :
                     field \in SignedFields} :
        key \in Users \cup {NoneStr, "zz"}} : tx \in PlainTxs}

\* h.after.verify() called and completed
Verify(h) ==
    /\ ret = Idle
    /\ ThreadsIdle
    /\ ret' = [op |-> "verify", arg |-> h, ok |-> verify(h.after),
               log |-> "", raised |-> verify_raises(h.after)]
    /\ UNCHANGED <<chain, accounts, applied, lock, pc, local, obs, mempool, nonce_map, pool_lock, calls>>

NextVerify ==
    \/ \E h \in Histories : Verify(h)
    \/ Return

SpecVerify == Init /\ [][NextVerify]_vars

-----------------------------------------------------------------------------
(* minichain/mempool.py, cli.py cmd_mine, minichain/p2p.py *)

\* Mempool._get_tx_id: hash of the full serialised transaction
get_tx_id(tx) == TxHash(tx_to_dict(tx))

\* Mempool.add_transaction; result: ok, pool (the mempool afterwards)
add_transaction(pool, tx, max_size) ==
    LET tx_id == get_tx_id(tx)
    IN  IF ~verify(tx) THEN [ok |-> FALSE, pool |-> pool]
        ELSE IF tx_id \in pool.seen THEN [ok |-> FALSE, pool |-> pool]
        ELSE IF Len(pool.pending) >= max_size
        THEN [ok |-> FALSE, pool |-> pool]
        ELSE [ok |-> TRUE,
              pool |-> [pending |-> Append(pool.pending, tx),
                        seen |-> pool.seen \cup {tx_id}]]

\* Mempool.get_transactions_for_block: "Returns pending transactions and
\* clears the pool"; result: txs, pool
get_transactions_for_block(pool) ==
    LET txs == pool.pending
        confirmed_ids == {get_tx_id(txs[i]) : i \in 1..Len(txs)}
    IN  [txs |-> txs,
         pool |-> [pending |-> <<>>, seen |-> pool.seen \ confirmed_ids]]

\* Mempool.remove_transaction
remove_transaction(pool, tx) ==
    LET tx_id == get_tx_id(tx)
        keep(t) == get_tx_id(t) # tx_id
    IN  [pending |-> SelectSeq(pool.pending, keep),
         seen |-> pool.seen \ {tx_id}]

\* "for tx in block.transactions: mempool.remove_transaction(tx)"
RECURSIVE RemoveAll(_, _)
RemoveAll(pool, txs) ==
    IF Len(txs) = 0 THEN pool
    ELSE RemoveAll(remove_transaction(pool, Head(txs)), Tail(txs))

\* the mining difficulty of the node's configuration
DIFFICULTY == 1

\* transactions submitted to the node: valid on a fresh state, valid only
\* once the wallet holds a reward, with the next nonce, and not signed
PoolTxs ==
    {SignedTx(Wallet, "b", 0, 0, NoneStr, 0),
     SignedTx(Wallet, "b", 1, 0, NoneStr, 0),
     SignedTx(Wallet, "b", 0, 1, NoneStr, 0),
     UnsignedTx}

\* MiniChainCLI._get_nonce; result: nonce (the nonce handed out), nonce_map
\* and accounts afterwards (get_account creates a missing account)
cli_get_nonce(accts, nmap, address) ==
    LET acc_nonce == get_nonce(accts, address)
        loc == IF address \in DOMAIN nmap THEN nmap[address] ELSE acc_nonce
        nonce == IF acc_nonce >= loc THEN acc_nonce ELSE loc
    IN  [nonce |-> nonce,
         nonce_map |-> [x \in DOMAIN nmap \cup {address} |->
                          IF x = address THEN nonce + 1 ELSE nmap[x]],
         accounts |-> get_account(accts, address)]

\* MiniChainCLI._sync_nonce
sync_nonce(accts, nmap, address) ==
    [x \in DOMAIN nmap \cup {address} |->
        IF x = address THEN get_nonce(accts, address) ELSE nmap[x]]

\* "for tx in txs: self._sync_nonce(tx.sender)"
RECURSIVE SyncAll(_, _, _)
SyncAll(accts, nmap, txs) ==
    IF Len(txs) = 0 THEN nmap
    ELSE SyncAll(accts, sync_nonce(accts, nmap, Head(txs).sender), Tail(txs))

\* the part cmd_send, cmd_deploy and cmd_call share: a nonce is taken, the
\* transaction built and signed with the wallet key, and handed to the mempool
Submit(op, receiver, amount, data) ==
    \E n \in {cli_get_nonce(accounts, nonce_map, Wallet)} :
      \E tx \in {SignedTx(Wallet, receiver, amount, n.nonce, data, 0)} :
        \E r \in {add_transaction(mempool, tx, MaxPool)} :
          /\ n.nonce <= MaxNonce + 1
          /\ accounts' = n.accounts
          /\ nonce_map' = n.nonce_map
          /\ mempool' = r.pool
          /\ ret' = [op |-> op, arg |-> tx, ok |-> r.ok,
                     log |-> IF r.ok THEN "submitted" ELSE "rejected"]

\* cmd_send <to> <amount>
CmdSend(to, amt) ==
    /\ ret = Idle
    /\ ThreadsIdle
    /\ IF get_balance(accounts, Wallet) < amt
       THEN /\ ret' = [op |-> "cmd_send", arg |-> UnsignedTx, ok |-> FALSE,
                       log |-> "Insufficient balance"]
            /\ UNCHANGED <<accounts, mempool, nonce_map>>
       ELSE Submit("cmd_send", to, amt, NoneStr)
    /\ UNCHANGED <<chain, applied, lock, pc, local, obs, pool_lock, calls>>

\* cmd_deploy with the code entered
CmdDeploy(code) ==
    /\ ret = Idle
    /\ ThreadsIdle
    /\ Submit("cmd_deploy", NoneStr, 0, code)
    /\ UNCHANGED <<chain, applied, lock, pc, local, obs, pool_lock, calls>>

\* cmd_call <contract> <data>
CmdCall(contract, data) ==
    /\ ret = Idle
    /\ ThreadsIdle
    /\ Submit("cmd_call", contract, 0, data)
    /\ UNCHANGED <<chain, applied, lock, pc, local, obs, pool_lock, calls>>

\* mempool.add_transaction(tx) called and completed
AddTransaction(tx) ==
    /\ ret = Idle
    /\ ThreadsIdle
    /\ \E r \in {add_transaction(mempool, tx, MaxPool)} :
          /\ mempool' = r.pool
          /\ ret' = [op |-> "add_transaction", arg |-> tx, ok |-> r.ok,
                     log |-> ""]
    /\ UNCHANGED <<chain, accounts, applied, lock, pc, local, obs, nonce_map, pool_lock, calls>>

\* cmd_mine: the pending transactions are taken from the mempool, a block
\* is built on the tip and mined, added to the chain, and the reward
\* credited.  max_nonce stands for the search giving up or not.
CmdMine(max_nonce) ==
    /\ ret = Idle
    /\ ThreadsIdle
    /\ Len(chain) < MaxChain
    /\ \E g \in {get_transactions_for_block(mempool)} :
        \E m \in {mine_block(Block(last_block(chain).index + 1,
                                   last_block(chain).hash, g.txs, BlockTime,
                                   DIFFICULTY),
                             [difficulty |-> DIFFICULTY,
                              max_nonce |-> max_nonce,
                              timeout_at |-> NoneInt,
                              cancel_at |-> NoneInt])} :
          /\ mempool' = g.pool
          /\ IF m.raised # NoneStr
             THEN /\ ret' = [op |-> "cmd_mine", arg |-> g.txs, ok |-> FALSE,
                             log |-> "Mining failed"]
                  /\ UNCHANGED <<chain, accounts, applied, nonce_map, pool_lock, calls>>
             ELSE \E r \in {add_block(chain, accounts, m.block)} :
                  /\ chain' = r.chain
                  /\ nonce_map' = IF r.ok
                                  THEN SyncAll(r.accounts, nonce_map, g.txs)
                                  ELSE nonce_map
                  /\ accounts' =
                        IF r.ok
                        THEN credit_mining_reward(r.accounts, Wallet,
                                                  DEFAULT_MINING_REWARD)
                        ELSE r.accounts
                  /\ ret' = [op |-> "cmd_mine", arg |-> g.txs, ok |-> r.ok,
                             log |-> IF r.ok THEN "Block Mined!"
                                     ELSE "Block rejected"]
                  /\ \E new \in {IF r.ok THEN Pairs(g.txs) ELSE {}} :
                        applied' = [ever |-> applied.ever \cup new,
                                    live |-> applied.live \cup new]
    /\ UNCHANGED <<lock, pc, local, obs, pool_lock, calls>>

\* P2PNetwork._handle_incoming_block: a block that extends the chain is
\* added, and on success its transactions are removed from the mempool
HandleIncomingBlock(block) ==
    /\ ret = Idle
    /\ ThreadsIdle
    /\ Len(chain) < MaxChain
    /\ IF block.index = Len(chain)
       THEN \E r \in {add_block(chain, accounts, block)} :
            /\ chain' = r.chain
            /\ accounts' = r.accounts
            /\ mempool' = IF r.ok THEN RemoveAll(mempool, block.transactions)
                          ELSE mempool
            /\ ret' = [op |-> "handle_incoming_block", arg |-> block,
                       ok |-> r.ok, log |-> r.log]
            /\ \E new \in {IF r.ok THEN Pairs(block.transactions) ELSE {}} :
                  applied' = [ever |-> applied.ever \cup new,
                              live |-> applied.live \cup new]
       ELSE /\ ret' = [op |-> "handle_incoming_block", arg |-> block,
                       ok |-> FALSE, log |-> "Behind on blocks"]
            /\ UNCHANGED <<chain, accounts, applied, mempool, nonce_map, pool_lock, calls>>
    /\ UNCHANGED <<lock, pc, local, obs, nonce_map, pool_lock, calls>>

\* blocks a peer announces: on the tip with no or one submitted transaction,
\* and one that is ahead of the chain
PeerBlocks(ch) ==
    LET tip == last_block(ch)
    IN  {SealedBlock(tip.index + 1, tip.hash, txs, NoneInt, 0) :
            txs \in {<<>>} \cup {<<t>> : t \in PoolTxs}}
        \cup {SealedBlock(tip.index + 2, tip.hash, <<>>, NoneInt, 0)}

\* a node that takes transactions, mines and hears of blocks from peers
NextPool ==
    \/ \E tx \in PoolTxs : AddTransaction(tx)
    \/ \E max_nonce \in {1, MaxAttempts} : CmdMine(max_nonce)
    \/ \E block \in PeerBlocks(chain) : HandleIncomingBlock(block)
    \/ Return

SpecPool == Init /\ [][NextPool]_vars

-----------------------------------------------------------------------------
(* minichain/mempool.py statement by statement: threads calling one Mempool *)

\* the rest of the node stands still while the Mempool threads run
PoolFrame == UNCHANGED <<chain, accounts, ret, applied, lock, pc, local, obs,
                         nonce_map>>

\* "with self._lock:" entered without waiting for the lock
LockFree_off(t) == TRUE

\* "with self._lock:" can be entered: the lock is free
LockFree(t) == pool_lock = 0

\* the thread goes on to position p with the local names in upd
Goto(t, upd) == calls' = [calls EXCEPT ![t] = upd]

\* the method returns: the with block is left, the lock released
Leave(t, result) ==
    /\ calls' = [calls EXCEPT ![t] = [NoCall EXCEPT !.result = result]]
    /\ pool_lock' = 0

\* add_transaction(tx) up to the with block: "tx_id = self._get_tx_id(tx)",
\* "if not tx.verify(): return False"
AddStart(t, tx) ==
    /\ calls[t].pc = "idle"
    /\ IF ~verify(tx)
       THEN Goto(t, [NoCall EXCEPT !.result = "False"])
       ELSE Goto(t, [NoCall EXCEPT !.pc = "add_wait", !.tx = tx,
                                   !.tx_id = get_tx_id(tx)])
    /\ UNCHANGED <<mempool, pool_lock>>
    /\ PoolFrame

\* get_transactions_for_block() up to the with block
GetStart(t) ==
    /\ calls[t].pc = "idle"
    /\ Goto(t, [NoCall EXCEPT !.pc = "get_wait"])
    /\ UNCHANGED <<mempool, pool_lock>>
    /\ PoolFrame

\* remove_transaction(tx) up to the with block: "tx_id = self._get_tx_id(tx)"
RemoveStart(t, tx) ==
    /\ calls[t].pc = "idle"
    /\ Goto(t, [NoCall EXCEPT !.pc = "remove_wait", !.tx = tx,
                              !.tx_id = get_tx_id(tx)])
    /\ UNCHANGED <<mempool, pool_lock>>
    /\ PoolFrame

\* "with self._lock:" of the three methods
PoolAcquire(t) ==
    /\ calls[t].pc \in {"add_wait", "get_wait", "remove_wait"}
    /\ LockFree(t)
    /\ pool_lock' = t
    /\ Goto(t, [calls[t] EXCEPT !.pc =
                   CASE calls[t].pc = "add_wait" -> "add_check"
                     [] calls[t].pc = "get_wait" -> "get_copy"
                     [] OTHER -> "remove_seen"])
    /\ UNCHANGED mempool
    /\ PoolFrame

\* "if tx_id in self._seen_tx_ids: return False",
\* "if len(self._pending_txs) >= self.max_size: return False"
AddCheck(t) ==
    /\ calls[t].pc = "add_check"
    /\ IF \/ calls[t].tx_id \in mempool.seen
          \/ Len(mempool.pending) >= MaxPool
       THEN Leave(t, "False")
       ELSE /\ Goto(t, [calls[t] EXCEPT !.pc = "add_append"])
            /\ UNCHANGED pool_lock
    /\ UNCHANGED mempool
    /\ PoolFrame

\* "self._pending_txs.append(tx)"
AddAppend(t) ==
    /\ calls[t].pc = "add_append"
    /\ mempool' = [mempool EXCEPT !.pending = Append(@, calls[t].tx)]
    /\ Goto(t, [calls[t] EXCEPT !.pc = "add_seen"])
    /\ UNCHANGED pool_lock
    /\ PoolFrame

\* "self._seen_tx_ids.add(tx_id); return True"
AddSeen(t) ==
    /\ calls[t].pc = "add_seen"
    /\ mempool' = [mempool EXCEPT !.seen = @ \cup {calls[t].tx_id}]
    /\ Leave(t, "True")
    /\ PoolFrame

\* "txs = self._pending_txs[:]; self._pending_txs = []"
GetCopy(t) ==
    /\ calls[t].pc = "get_copy"
    /\ mempool' = [mempool EXCEPT !.pending = <<>>]
    /\ Goto(t, [calls[t] EXCEPT !.pc = "get_seen", !.txs = mempool.pending])
    /\ UNCHANGED pool_lock
    /\ PoolFrame

\* "confirmed_ids = {...}; self._seen_tx_ids.difference_update(confirmed_ids);
\* return txs"
GetSeen(t) ==
    /\ calls[t].pc = "get_seen"
    /\ mempool' = [mempool EXCEPT !.seen =
                      @ \ {get_tx_id(calls[t].txs[i]) :
                              i \in 1..Len(calls[t].txs)}]
    /\ Leave(t, "txs")
    /\ PoolFrame

\* "self._seen_tx_ids.discard(tx_id)"
RemoveSeen(t) ==
    /\ calls[t].pc = "remove_seen"
    /\ mempool' = [mempool EXCEPT !.seen = @ \ {calls[t].tx_id}]
    /\ Goto(t, [calls[t] EXCEPT !.pc = "remove_filter"])
    /\ UNCHANGED pool_lock
    /\ PoolFrame

\* "self._pending_txs = [t for t in self._pending_txs if ... != tx_id]"
RemoveFilter(t) ==
    /\ calls[t].pc = "remove_filter"
    /\ mempool' = [mempool EXCEPT !.pending =
                      remove_transaction(mempool, calls[t].tx).pending]
    /\ Leave(t, NoneStr)
    /\ PoolFrame

\* two threads calling the three methods of one Mempool in any order
NextThreads ==
    \E t \in PoolThreads :
        \/ \E tx \in PoolTxs : AddStart(t, tx)
        \/ GetStart(t)
        \/ \E tx \in PoolTxs : RemoveStart(t, tx)
        \/ PoolAcquire(t)
        \/ AddCheck(t)
        \/ AddAppend(t)
        \/ AddSeen(t)
        \/ GetCopy(t)
        \/ GetSeen(t)
        \/ RemoveSeen(t)
        \/ RemoveFilter(t)

SpecThreads == Init /\ [][NextThreads]_vars

-----------------------------------------------------------------------------
(* the wire form: Transaction.from_dict, Block.from_dict *)

\* Transaction.from_dict when the clock reads now (ms): the constructor is
\* given data["timestamp"] / 1000 and multiplies it by 1000 again, but a
\* falsy timestamp (0, None) is passed as None and replaced by the clock
from_dict(data, now) ==
    [sender |-> data.sender, receiver |-> data.receiver,
     amount |-> data.amount, nonce |-> data.nonce, data |-> data.data,
     signature |-> data.signature,
     timestamp |-> IF data.timestamp = 0 THEN now ELSE data.timestamp]

\* Block.from_dict: the transactions through Transaction.from_dict, the
\* Merkle root computed anew by the constructor, nonce and hash copied
block_from_dict(data, now) ==
    [Block(data.index, data.previous_hash,
           [i \in 1..Len(data.transactions) |->
               from_dict(data.transactions[i], now)],
           data.timestamp, data.difficulty)
       EXCEPT !.nonce = data.nonce, !.hash = data.hash]

\* transactions sent over the wire: created at clock readings 0, 1 s, 2 s
WireTxs ==
    {SignedTx(Wallet, receiver, amount, 0, data, timestamp) :
        receiver \in {"b", NoneStr}, amount \in 0..1,
        data \in {NoneStr, "inc"}, timestamp \in 0..MaxClock}
    \cup {Transaction("b", Wallet, 1, 1, NoneStr, NoSignature, timestamp) :
            timestamp \in 0..MaxClock}

\* blocks sent over the wire: mined on the genesis
WireBlocks ==
    {[b EXCEPT !.hash = calculate_hash(to_header_dict(b))] :
        b \in {Block(1, GENESIS_HASH, txs, timestamp, difficulty) :
                 txs \in {<<>>} \cup {<<t>> : t \in WireTxs},
                 timestamp \in 0..1, difficulty \in {NoneInt, 0}}}

\* Transaction.from_dict(tx.to_dict()) on the receiving side
TxRoundTrip(tx, now) ==
    /\ ret = Idle
    /\ ThreadsIdle
    /\ ret' = [op |-> "Transaction.from_dict", arg |-> tx, ok |-> TRUE,
               log |-> "", result |-> from_dict(tx_to_dict(tx), now)]
    /\ UNCHANGED <<chain, accounts, applied, lock, pc, local, obs, mempool, nonce_map, pool_lock, calls>>

\* Block.from_dict(block.to_dict()) on the receiving side
BlockRoundTrip(block, now) ==
    /\ ret = Idle
    /\ ThreadsIdle
    /\ ret' = [op |-> "Block.from_dict", arg |-> block, ok |-> TRUE,
               log |-> "",
               result |-> block_from_dict(block_to_dict(block), now)]
    /\ UNCHANGED <<chain, accounts, applied, lock, pc, local, obs, mempool, nonce_map, pool_lock, calls>>

NextWire ==
    \/ \E tx \in WireTxs, now \in 0..MaxClock : TxRoundTrip(tx, now)
    \/ \E block \in WireBlocks, now \in 0..MaxClock :
          BlockRoundTrip(block, now)
    \/ Return

SpecWire == Init /\ [][NextWire]_vars

\* more than half a mining reward: two payments overspend one reward
Payment == (DEFAULT_MINING_REWARD \div 2) + 5

\* transfers of the wallet to "b", free and paid, with nonces 0..MaxNonce+1
SeqTxs ==
    {SignedTx(Wallet, "b", amount, nonce, NoneStr, 0) :
        amount \in {0, Payment}, nonce \in 0..(MaxNonce + 1)}

\* a node whose wallet holds a reward or not, and that is offered blocks of
\* one and two of these transfers
NextSeq ==
    \/ /\ ret = Idle
       /\ \/ CreditMiningReward(Wallet)
          \/ \E txs \in {<<t>> : t \in SeqTxs}
                        \cup {<<t1, t2>> : t1 \in SeqTxs, t2 \in SeqTxs} :
                AddBlock(SealedBlock(last_block(chain).index + 1,
                                     last_block(chain).hash, txs, NoneInt, 0))
    \/ Return

SpecSeq == Init /\ [][NextSeq]_vars

\* the commands of one node's console: the wallet sends, deploys, calls, mines
NextCli ==
    \/ \E amt \in {0, Payment} : CmdSend("b", amt)
    \/ CmdDeploy("inc")
    \/ CmdCall(Contract0, "increment")
    \/ \E max_nonce \in {1, MaxAttempts} : CmdMine(max_nonce)
    \/ Return

SpecCli == Init /\ [][NextCli]_vars

-----------------------------------------------------------------------------
(* minichain/p2p.py: the connection handler *)

\* the outcome of a handler that changed nothing; caught is the exception
\* the handler logged, raised the one that left it
Dropped(ch, accts, pool, caught, raised) ==
    [chain |-> ch, accounts |-> accts, pool |-> pool, caught |-> caught,
     raised |-> raised, did |-> "nothing"]

\* _handle_incoming_tx after "self.node.mempool.add_transaction(tx)" gave r
TxOutcome(ch, accts, r) ==
    [Dropped(ch, accts, r.pool, NoneStr, NoneStr)
        EXCEPT !.did = IF r.ok THEN "add_transaction" ELSE "nothing"]

\* _handle_incoming_block for the decoded block, r being what add_block gives
BlockOutcome(ch, accts, pool, block, r) ==
    IF block.index = Len(ch) /\ r.ok
    THEN [chain |-> r.chain, accounts |-> r.accounts,
          pool |-> RemoveAll(pool, block.transactions),
          caught |-> NoneStr, raised |-> NoneStr, did |-> "add_block"]
    ELSE Dropped(ch, accts, pool, NoneStr, NoneStr)

\* _handle_incoming_chain for a longer chain: e is the exception replace_chain
\* raises (NoneStr when it returns), r what it returns
ChainOutcome(ch, accts, pool, e, r) ==
    IF e # NoneStr
    THEN Dropped(ch, accts, pool, e, NoneStr)
    ELSE IF r.ok
    THEN [chain |-> r.chain, accounts |-> r.accounts, pool |-> pool,
          caught |-> NoneStr, raised |-> NoneStr, did |-> "replace_chain"]
    ELSE Dropped(ch, accts, pool, NoneStr, NoneStr)

\* P2PNetwork._handle_incoming_tx
handle_incoming_tx(ch, accts, pool, tx_data, now) ==
    IF ~IsDict(tx_data)
    THEN Dropped(ch, accts, pool, "TypeError", NoneStr)
    ELSE TxOutcome(ch, accts,
                   add_transaction(pool, from_dict(tx_data, now), MaxPool))

\* P2PNetwork._handle_incoming_block
handle_incoming_block(ch, accts, pool, block_data, now) ==
    IF ~IsDict(block_data)
    THEN Dropped(ch, accts, pool, "AttributeError", NoneStr)
    ELSE IF \E i \in 1..Len(block_data.transactions) :
                ~IsDict(block_data.transactions[i])
    THEN Dropped(ch, accts, pool, "TypeError", NoneStr)
    ELSE BlockOutcome(ch, accts, pool, block_from_dict(block_data, now),
                      add_block(ch, accts, block_from_dict(block_data, now)))

\* P2PNetwork._handle_incoming_chain; form is the JSON type of the data
handle_incoming_chain(ch, accts, pool, form, incoming_blocks) ==
    IF form \notin {"list", "dict"}
    THEN Dropped(ch, accts, pool, NoneStr, NoneStr)
    ELSE IF Len(incoming_blocks) <= Len(ch)
    THEN Dropped(ch, accts, pool, NoneStr, NoneStr)
    ELSE ChainOutcome(ch, accts, pool,
                      replace_chain_raises(ch, incoming_blocks),
                      replace_chain(ch, accts, incoming_blocks))

\* a message as read from the connection: json is "object", another JSON
\* type, or "invalid" (not JSON); type is message["type"]; tx, block and
\* blocks are message["data"] for the types that read it
Message(json, type, form, tx, block, blocks) ==
    [json |-> json, type |-> type, form |-> form, tx |-> tx, block |-> block,
     blocks |-> blocks]

\* P2PNetwork._handle_message.  A message that is not an object has no
\* method "get"; _send_chain calls Blockchain.to_dict, which chain.py does
\* not define.
handle_message(ch, accts, pool, message, now) ==
    IF message.json # "object"
    THEN Dropped(ch, accts, pool, NoneStr, "AttributeError")
    ELSE IF message.type = "register"
    THEN Dropped(ch, accts, pool, NoneStr, NoneStr)
    ELSE IF message.type = "tx"
    THEN handle_incoming_tx(ch, accts, pool, message.tx, now)
    ELSE IF message.type = "block"
    THEN handle_incoming_block(ch, accts, pool, message.block, now)
    ELSE IF message.type = "request_chain"
    THEN Dropped(ch, accts, pool, NoneStr, "AttributeError")
    ELSE IF message.type = "chain"
    THEN handle_incoming_chain(ch, accts, pool, message.form, message.blocks)
    ELSE Dropped(ch, accts, pool, NoneStr, NoneStr)

\* the classes derived from Exception among the exceptions of the model
ExceptionClasses ==
    {"AttributeError", "TypeError", "KeyError", "ValueError",
     "JSONDecodeError", "TimeoutError"}

\* the handlers of _handle_connection without "except Exception"
connection_escapes_named(e) ==
    IF e \in {NoneStr, "JSONDecodeError", "TimeoutError"} THEN NoneStr ELSE e

\* the exception that leaves _handle_connection when its try body raised e:
\* "except json.JSONDecodeError", "except asyncio.TimeoutError",
\* "except Exception"
connection_escapes(e) ==
    IF e = NoneStr \/ e \in ExceptionClasses THEN NoneStr ELSE e

\* P2PNetwork._handle_connection
handle_connection(ch, accts, pool, message, now) ==
    IF message.json = "invalid"
    THEN Dropped(ch, accts, pool, NoneStr, "JSONDecodeError")
    ELSE handle_message(ch, accts, pool, message, now)

NoMessage == Message("invalid", "", "", NotADict, NotADict, <<>>)

\* what peers send: transactions, blocks on and ahead of the tip, chains as
\* list and as object, entries that are no objects, unknown and broken
\* messages
Messages(ch) ==
    {[NoMessage EXCEPT !.json = "object", !.type = "tx", !.tx = tx] :
        tx \in {tx_to_dict(LateTx), tx_to_dict(UnsignedTx), NotADict}}
    \cup {[NoMessage EXCEPT !.json = "object", !.type = "block",
                            !.block = b] :
            b \in {block_to_dict(x) :
                      x \in PeerBlocks(ch) \cup
                            {SealedBlock(last_block(ch).index + 1,
                                         last_block(ch).hash, <<LateTx>>,
                                         NoneInt, 0)}}
                  \cup {NotADict,
                        [block_to_dict(
                            SealedBlock(last_block(ch).index + 1,
                                        last_block(ch).hash, <<>>, NoneInt, 0))
                           EXCEPT !.transactions = <<NotADict>>]}}
    \cup {[NoMessage EXCEPT !.json = "object", !.type = "chain",
                            !.form = form, !.blocks = c] :
            form \in {"list", "dict"},
            c \in ValidChains \cup IllTypedChains}
    \cup {[NoMessage EXCEPT !.json = "object", !.type = type] :
            type \in {"chain", "request_chain", "register", "ping", NoneStr}}
    \cup {NoMessage, [NoMessage EXCEPT !.json = "array"]}

\* one connection handled from readline to close
HandleConnection(message, now) ==
    /\ ret = Idle
    /\ ThreadsIdle
    /\ message.type = "block" => Len(chain) < MaxChain
    /\ \E r \in {handle_connection(chain, accounts, mempool, message, now)} :
          /\ chain' = r.chain
          /\ accounts' = r.accounts
          /\ mempool' = r.pool
          /\ ret' = [op |-> "handle_connection", arg |-> message,
                     ok |-> r.did # "nothing", log |-> r.caught,
                     did |-> r.did,
                     raised |-> connection_escapes(r.raised)]
          /\ applied' =
                IF r.did = "add_block"
                THEN [ever |-> applied.ever
                                 \cup Pairs(last_block(r.chain).transactions),
                      live |-> applied.live
                                 \cup Pairs(last_block(r.chain).transactions)]
                ELSE IF r.did = "replace_chain"
                THEN [ever |-> applied.ever \cup ChainPairs(r.chain),
                      live |-> ChainPairs(r.chain)]
                ELSE applied
    /\ UNCHANGED <<lock, pc, local, obs, nonce_map, pool_lock, calls>>

\* a node that only listens to its peers
NextNet ==
    \/ \E message \in Messages(chain), now \in 0..1 :
          HandleConnection(message, now)
    \/ Return

SpecNet == Init /\ [][NextNet]_vars

Spec == Init /\ [][Next]_vars

\* a node that mines: add_block, then the reward credited to its wallet
NextMine ==
    \/ /\ ret = Idle
       /\ \/ \E block \in BlockInputs(chain) : AddBlock(block)
          \/ CreditMiningReward(Wallet)
    \/ Return

SpecMine == Init /\ [][NextMine]_vars

\* a State object driven directly, as the tests do
NextState ==
    \/ /\ ret = Idle
       /\ \/ \E tx \in AllTxs \cup SandboxTxs \cup DataTxs :
                ApplyTransaction(tx)
          \/ CreditMiningReward(Wallet)
    \/ Return

SpecState == Init /\ [][NextState]_vars

\* a node whose live state is driven by blocks, by chain synchronisation and
\* by transactions applied to it directly
NextLedger ==
    \/ /\ ret = Idle
       /\ \/ \E block \in BlockInputs(chain) : AddBlock(block)
          \/ \E chain_data \in CandidateChains : ReplaceChain(chain_data)
          \/ \E tx \in PairTxs : ApplyTransaction(tx)
    \/ Return

SpecLedger == Init /\ [][NextLedger]_vars

-----------------------------------------------------------------------------
(* State machine: add_block called by two threads while cmd_status reads *)

\* thread t calls add_block(block)
Call(t, block) ==
    /\ pc[t] = "idle"
    /\ pc' = [pc EXCEPT ![t] = "acquire"]
    /\ local' = [local EXCEPT ![t].block = block]
    /\ UNCHANGED <<chain, accounts, ret, applied, lock, obs, mempool, nonce_map, pool_lock, calls>>

\* a lock that is handed out although another thread holds it
Acquire_nolock(t) ==
    /\ pc[t] = "acquire"
    /\ lock' = t
    /\ pc' = [pc EXCEPT ![t] = "validate"]
    /\ UNCHANGED <<chain, accounts, ret, applied, local, obs, mempool, nonce_map, pool_lock, calls>>

\* "with self._lock:" entered
Acquire(t) ==
    /\ pc[t] = "acquire"
    /\ lock = 0
    /\ lock' = t
    /\ pc' = [pc EXCEPT ![t] = "validate"]
    /\ UNCHANGED <<chain, accounts, ret, applied, local, obs, mempool, nonce_map, pool_lock, calls>>

\* the checks and the application of the transactions to temp_state;
\* a rejection returns False and leaves the with block
Validate(t) ==
    /\ pc[t] = "validate"
    /\ \E r \in {add_block(chain, accounts, local[t].block)} :
          IF r.ok
          THEN /\ local' = [local EXCEPT ![t].temp = r.accounts]
               /\ pc' = [pc EXCEPT ![t] = "commit"]
               /\ lock' = lock
          ELSE /\ local' = [local EXCEPT ![t].result = FALSE,
                                         ![t].log = r.log]
               /\ pc' = [pc EXCEPT ![t] = "done"]
               /\ lock' = 0
    /\ UNCHANGED <<chain, accounts, ret, applied, obs, mempool, nonce_map, pool_lock, calls>>

\* "self.state = temp_state"
CommitState(t) ==
    /\ pc[t] = "commit"
    /\ accounts' = local[t].temp
    /\ pc' = [pc EXCEPT ![t] = "append"]
    /\ UNCHANGED <<chain, ret, applied, lock, local, obs, mempool, nonce_map, pool_lock, calls>>

\* "self.chain.append(block); return True", leaving the with block
AppendBlock(t) ==
    /\ pc[t] = "append"
    /\ chain' = Append(chain, local[t].block)
    /\ local' = [local EXCEPT ![t].result = TRUE]
    /\ pc' = [pc EXCEPT ![t] = "done"]
    /\ lock' = 0
    /\ UNCHANGED <<accounts, ret, applied, obs, mempool, nonce_map, pool_lock, calls>>

\* cmd_status: "self.node.blockchain.state.get_balance(...)", no lock taken
ReadState ==
    /\ pc[Reader] = "idle"
    /\ obs' = [obs EXCEPT !.state = accounts]
    /\ pc' = [pc EXCEPT ![Reader] = "height"]
    /\ UNCHANGED <<chain, accounts, ret, applied, lock, local, mempool, nonce_map, pool_lock, calls>>

\* cmd_status: "self.node.blockchain.height", read under the lock
ReadHeight ==
    /\ pc[Reader] = "height"
    /\ lock = 0
    /\ obs' = [obs EXCEPT !.height = Len(chain)]
    /\ pc' = [pc EXCEPT ![Reader] = "done"]
    /\ UNCHANGED <<chain, accounts, ret, applied, lock, local, mempool, nonce_map, pool_lock, calls>>

NextConc ==
    \/ \E t \in Writers :
          \/ /\ pc[t] = "idle"
             /\ \E block \in BlockInputs(chain) : Call(t, block)
          \/ Acquire(t)
          \/ Validate(t)
          \/ CommitState(t)
          \/ AppendBlock(t)
    \/ ReadState
    \/ ReadHeight

SpecConc == Init /\ [][NextConc]_vars

-----------------------------------------------------------------------------
(* Properties *)

\* a call of the named operation completes in this step
Completes(name) == ret.op = "idle" /\ ret'.op = name

\* the header checks of add_block, stated independently of its control flow
HeaderValid(ch, block) ==
    /\ block.previous_hash = ch[Len(ch)].hash
    /\ block.index = ch[Len(ch)].index + 1
    /\ block.hash = calculate_hash(to_header_dict(block))
    /\ (block.difficulty > 0 => HashZeros(block.hash) >= block.difficulty)

\* the state obtained by applying every transaction of every block of ch,
\* in order, to an empty state (Failed when one of them fails)
Failed == [x \in {"failed"} |-> NewAccount]
RECURSIVE Replay(_)
Replay(ch) ==
    IF Len(ch) = 0 THEN EmptyAccounts
    ELSE LET before == Replay(SubSeq(ch, 1, Len(ch) - 1))
             r == ApplyAll(before, ch[Len(ch)].transactions)
         IN  IF before = Failed \/ ~r.ok THEN Failed ELSE r.accounts

\* C1: add_block is all-or-nothing.  If applying the block's transactions in
\* order to the live state fails at some transaction, add_block returns False
\* and chain and live state are exactly as before (no effect of the earlier
\* transactions of the block); if all succeed (and the block passes the
\* header checks that precede them) the chain grows by exactly the block and
\* the live state is the state with all its transactions applied.
C1_AddBlockAllOrNothing ==
    [][Completes("add_block") =>
        LET block == ret'.arg
            t == ApplyAll(accounts, block.transactions)
        IN  IF ~t.ok
            THEN ~ret'.ok /\ chain' = chain /\ accounts' = accounts
            ELSE HeaderValid(chain, block) =>
                   /\ ret'.ok
                   /\ chain' = Append(chain, block)
                   /\ accounts' = t.accounts]_vars

\* a block was rejected whose first transaction had moved a coin before the
\* second one failed
C1_Witness ==
    /\ ret.op = "add_block" /\ ~ret.ok
    /\ ret.log = "Transaction failed validation"
    /\ Len(ret.arg.transactions) = 2
    /\ ret.arg.transactions[1].amount > 0
    /\ validate_and_apply(accounts, ret.arg.transactions[1]).ok

\* C2: chain linkage invariant.  Every non-genesis block of the chain names
\* the hash of its predecessor, has the predecessor's index plus one, carries
\* the hash of its own header fields, and that hash starts with as many zero
\* characters as the block's difficulty.
C2_ChainLinkage ==
    \A i \in 2..Len(chain) :
        /\ chain[i].previous_hash = chain[i - 1].hash
        /\ chain[i].index = chain[i - 1].index + 1
        /\ chain[i].hash = calculate_hash(to_header_dict(chain[i]))
        /\ (chain[i].difficulty > 0 =>
              HashZeros(chain[i].hash) >= chain[i].difficulty)

\* a chain of three blocks holding a block mined for difficulty 2
C2_Witness ==
    /\ Len(chain) = 3
    /\ \E i \in 2..Len(chain) : chain[i].difficulty = 2

\* C3: replace_chain changes the chain or the live state only when the
\* candidate is strictly longer than the current chain and validate_chain
\* accepts it.
C3_ReplaceOnlyLongerValid ==
    [][Completes("replace_chain") =>
        ((chain' # chain \/ accounts' # accounts) =>
            /\ Len(ret'.arg) > Len(chain)
            /\ validate_chain(ret'.arg))]_vars

\* a longer valid candidate with a transaction has been adopted
C3_Witness ==
    /\ ret.op = "replace_chain" /\ ret.ok
    /\ ret.log = "Chain replaced successfully"
    /\ accounts # EmptyAccounts

\* C4: after any sequence of add_block and replace_chain calls the live state
\* is the replay of every transaction of the chain on an empty state.
C4_StateIsReplay == accounts = Replay(chain)

\* two blocks with transactions are on the chain and a call was rejected
C4_Witness ==
    /\ Len(chain) = 3
    /\ \A i \in 2..3 : Len(chain[i].transactions) > 0
    /\ ret.op \in {"add_block", "replace_chain"} /\ ~ret.ok

\* C7: every failed apply_transaction leaves the accounts map identical:
\* the same addresses with the same balance, nonce, code and storage.
C7_FailedApplyLeavesAccounts ==
    [][(Completes("apply_transaction") /\ ~ret'.ok) =>
          accounts' = accounts]_vars

\* C8: a correctly signed transaction whose amount exceeds the sender's
\* balance fails, and the sender's balance and nonce and the receiver's
\* balance are what they were.
C8_InsufficientBalance ==
    [][(/\ Completes("apply_transaction")
        /\ verify(ret'.arg)
        /\ ret'.arg.amount > get_balance(accounts, ret'.arg.sender)) =>
          LET tx == ret'.arg
          IN  /\ ~ret'.ok
              /\ get_balance(accounts', tx.sender)
                   = get_balance(accounts, tx.sender)
              /\ get_nonce(accounts', tx.sender)
                   = get_nonce(accounts, tx.sender)
              /\ get_balance(accounts', tx.receiver)
                   = get_balance(accounts, tx.receiver)]_vars

\* a funded sender tried to spend more than it has
C8_Witness ==
    /\ ret.op = "apply_transaction" /\ ~ret.ok
    /\ verify(ret.arg) /\ ~is_coinbase(ret.arg)
    /\ get_balance(accounts, ret.arg.sender) > 0
    /\ ret.arg.amount > get_balance(accounts, ret.arg.sender)
    /\ get_nonce(accounts, ret.arg.sender) = ret.arg.nonce

\* the chain as it was when it had k blocks, and the state committed with it
PrefixChain(k) == SubSeq(chain, 1, k)

\* writer t's block was a valid extension of the tip it names
ValidExtension(t) ==
    LET block == local[t].block
        k == block.index
    IN  /\ k \in 1..Len(chain)
        /\ HeaderValid(PrefixChain(k), block)
        /\ ApplyAll(Replay(PrefixChain(k)), block.transactions).ok

\* C5: when two threads call add_block concurrently with blocks that are
\* both valid extensions of the same tip, exactly one call returns True, the
\* chain grows by exactly that block, the live state holds only the winner's
\* transactions, and the other call fails its linkage check.
C5_ExactlyOneWins ==
    (/\ pc[1] = "done" /\ pc[2] = "done"
     /\ local[1].block.previous_hash = local[2].block.previous_hash
     /\ ValidExtension(1) /\ ValidExtension(2)) =>
        \E w \in Writers :
            LET l == 3 - w
                k == local[w].block.index
            IN  /\ local[w].result /\ ~local[l].result
                /\ local[l].log = "Invalid previous hash"
                /\ chain = Append(PrefixChain(k), local[w].block)
                /\ accounts = ApplyAll(Replay(PrefixChain(k)),
                                       local[w].block.transactions).accounts

\* both calls have returned; the blocks were different valid extensions of
\* the genesis block, each with a transaction
C5_Witness ==
    /\ pc[1] = "done" /\ pc[2] = "done"
    /\ local[1].block.previous_hash = local[2].block.previous_hash
    /\ ValidExtension(1) /\ ValidExtension(2)
    /\ local[1].block # local[2].block
    /\ Len(local[1].block.transactions) > 0
    /\ Len(local[2].block.transactions) > 0
    /\ local[2].result

\* C6: the (state, chain) pair a reader observes is one that existed after a
\* completed operation: the observed state is the state committed with the
\* chain of the observed height.
C6_ReaderSeesCommittedPair ==
    pc[Reader] = "done" =>
        /\ obs.height \in 1..Len(chain)
        /\ obs.state = Replay(PrefixChain(obs.height))

\* the transactions of txs that are not coinbase transactions
RECURSIVE CountPlain(_)
CountPlain(txs) ==
    IF Len(txs) = 0 THEN 0
    ELSE (IF is_coinbase(Head(txs)) THEN 0 ELSE 1) + CountPlain(Tail(txs))

\* a successful application in this step is of (sender, nonce) pairs that
\* are not in seen and that differ from each other
FreshPairs(seen) ==
    /\ (Completes("apply_transaction") /\ ret'.ok) =>
          Pairs(<<ret'.arg>>) \cap seen = {}
    /\ (Completes("add_block") /\ ret'.ok) =>
          /\ Pairs(ret'.arg.transactions) \cap seen = {}
          /\ Cardinality(Pairs(ret'.arg.transactions))
               = CountPlain(ret'.arg.transactions)

\* C9 as stated: once a non-coinbase transaction with (sender, nonce) has been
\* applied successfully, no transaction with that sender and nonce is applied
\* successfully again in any state reachable afterwards, neither directly
\* nor in a block.
C9_NoReplayEver == [][FreshPairs(applied.ever)]_vars

\* C9 amended: the same for the pairs applied to the current live state, that
\* is since the last adoption of a chain by replace_chain, which rebuilds the
\* live state from the transactions of the adopted chain alone.
C9_NoReplaySinceRebuild == [][FreshPairs(applied.live)]_vars

\* a correctly signed transaction that the sender could pay for was refused
\* because its (sender, nonce) pair had been applied in a block before
C9_Witness ==
    /\ ret.op = "apply_transaction" /\ ~ret.ok
    /\ verify(ret.arg) /\ ~is_coinbase(ret.arg)
    /\ <<ret.arg.sender, ret.arg.nonce>> \in ChainPairs(chain)
    /\ get_balance(accounts, ret.arg.sender) >= ret.arg.amount

\* the nonce of the sender moves by one on success and not at all on failure
NonceStep ==
    Completes("apply_transaction") =>
        LET s == ret'.arg.sender
        IN  get_nonce(accounts', s)
              = get_nonce(accounts, s) + (IF ret'.ok THEN 1 ELSE 0)

\* no account's nonce is lower after the step
NonceKept ==
    \A addr \in DOMAIN accounts :
        get_nonce(accounts', addr) >= get_nonce(accounts, addr)

\* C10 as stated: a successful apply_transaction raises the sender's nonce by
\* exactly one, a failed one leaves it, and no operation lowers any nonce.
C10_NonceMonotonic == [][NonceStep /\ NonceKept]_vars

\* C10 amended: the same, where the operations that never lower a nonce are
\* all but a replace_chain that adopts the candidate.
C10_NonceMonotonicButRebuild ==
    [][/\ NonceStep
       /\ ~(Completes("replace_chain")
              /\ ret'.log = "Chain replaced successfully") => NonceKept]_vars

\* a contract call by an account at nonce 1 has succeeded
C10_Witness ==
    /\ ret.op = "apply_transaction" /\ ret.ok
    /\ ret.arg.data = "increment"
    /\ get_nonce(accounts, ret.arg.sender) = 2

\* C11: account balances are never negative, in every state reachable by
\* the public state operations and block commits.
C11_BalancesNonNegative ==
    \A addr \in DOMAIN accounts : accounts[addr].balance >= 0

\* the contract call tx passes the transaction checks in accts and its
\* sandbox execution fails: forbidden syntax, runtime error, timeout, no
\* result, or a result that is not serializable
SandboxFailure(accts, tx) ==
    /\ ~Falsy(tx.receiver) /\ ~Falsy(tx.data)
    /\ verify(tx)
    /\ get_balance(accts, tx.sender) >= tx.amount
    /\ get_nonce(accts, tx.sender) = tx.nonce
    /\ tx.receiver \in DOMAIN accts
    /\ ~Falsy(accts[tx.receiver].code)
    /\ LET code == accts[tx.receiver].code
           out == safe_exec_worker(code, accts[tx.receiver].storage,
                                   [sender |-> tx.sender, value |-> tx.amount,
                                    data |-> tx.data])
       IN  \/ ~validate_code_ast(code)
           \/ out.status # "success"
           \/ ~json_serializable(out.storage)

\* C12: when the sandbox execution of a contract call fails, apply_transaction
\* fails and the sender's balance and nonce and the contract's balance and
\* storage are what they were before the call.
C12_SandboxFailureRollsBack ==
    [][(Completes("apply_transaction") /\ SandboxFailure(accounts, ret'.arg))
        => LET tx == ret'.arg
           IN  /\ ~ret'.ok
               /\ get_balance(accounts', tx.sender)
                    = get_balance(accounts, tx.sender)
               /\ get_nonce(accounts', tx.sender)
                    = get_nonce(accounts, tx.sender)
               /\ accounts'[tx.receiver] = accounts[tx.receiver]]_vars

\* a call that sent a coin to a contract whose result is not serializable
\* has failed
C12_Witness ==
    /\ ret.op = "apply_transaction" /\ ~ret.ok
    /\ ret.arg.amount = 1
    /\ SandboxFailure(accounts, ret.arg)
    /\ accounts[ret.arg.receiver].code = "set"

\* C13: add_block returns False and leaves the chain and the live state as
\* they were whenever the block's previous_hash is not the tip's hash, or its
\* index is not the tip's index plus one, or its hash field is not the hash
\* of its header, or that hash has fewer leading zeros than its difficulty.
C13_BadHeaderRejected ==
    [][(Completes("add_block") /\ ~HeaderValid(chain, ret'.arg)) =>
          /\ ~ret'.ok
          /\ chain' = chain
          /\ accounts' = accounts]_vars

\* a block mined for too few leading zeros was refused on a chain that
\* already holds a block with a transaction
C13_Witness ==
    /\ ret.op = "add_block" /\ ~ret.ok
    /\ ret.log = "Hash does not meet difficulty"
    /\ ret.arg.difficulty = 2
    /\ Len(chain) = 2
    /\ accounts # EmptyAccounts

C15_TrueOnlyIfLongerAndValid ==
    [][Completes("replace_chain") =>
          /\ ret'.ok => /\ Len(ret'.arg) > Len(chain)
                        /\ validate_chain(ret'.arg)
          /\ Len(ret'.arg) <= Len(chain) => ~ret'.ok]_vars

\* the hash of the header of block b with its nonce replaced by n
HashWithNonce(b, n) == calculate_hash([to_header_dict(b) EXCEPT !.nonce = n])

\* C16: when mine_block(block, difficulty = d) returns, the block's nonce is
\* the smallest n >= 0 whose header hash starts with d zeros, the block's hash
\* field is the hash of its own header, and that hash has at least d leading
\* zeros.
C16_MinedNonceIsSmallest ==
    [][(Completes("mine_block") /\ ret'.ok) =>
          LET b == local'[1].block
              d == ret'.arg.difficulty
          IN  /\ b.nonce >= 0
              /\ StartsWithZeros(HashWithNonce(b, b.nonce), d)
              /\ \A n \in 0..(b.nonce - 1) :
                    ~StartsWithZeros(HashWithNonce(b, n), d)
              /\ b.hash = calculate_hash(to_header_dict(b))
              /\ HashZeros(b.hash) >= d]_vars

\* mining for two leading zeros returned a nonce after two failed attempts
C16_Witness ==
    /\ ret.op = "mine_block" /\ ret.ok
    /\ ret.arg.difficulty = 2
    /\ local[1].block.nonce = 2
    /\ ret.tried = <<0, 1, 2>>

\* C17: every failure of mine_block by the attempt cap, the timeout or the
\* cancellation raises MiningExceededError and leaves the caller's block as
\* it was, nonce and hash included; with max_nonce = N a call that fails on
\* the cap has tried exactly the nonces 0..N-1.
C17_FailureLeavesBlock ==
    [][(Completes("mine_block") /\ ~ret'.ok /\ ret'.arg.difficulty > 0) =>
          /\ ret'.raised = "MiningExceededError"
          /\ local'[1].block = local[1].block
          /\ ret'.log = "Mining failed: max_nonce exceeded" =>
                ret'.tried = [i \in 1..ret'.arg.max_nonce |-> i - 1]]_vars

\* a block that was mined before is mined again for a target no hash meets
\* and the call gives up at the cap after trying every nonce below it
C17_Witness ==
    /\ ret.op = "mine_block" /\ ~ret.ok
    /\ ret.log = "Mining failed: max_nonce exceeded"
    /\ ret.arg.max_nonce = MaxAttempts
    /\ Len(ret.tried) = MaxAttempts
    /\ local[1].block.hash # NoneHash
    /\ local[1].block.nonce = 1

\* C18: apply_transaction of a coinbase transaction, whatever its amount and
\* nonce, returns success and credits the receiver with the amount, without a
\* signature, a matching nonce or a sender balance.
C18_CoinbaseCredits ==
    [][(Completes("apply_transaction") /\ is_coinbase(ret'.arg)) =>
          LET tx == ret'.arg
          IN  /\ ret'.ok
              /\ get_balance(accounts', tx.receiver) =
                    get_balance(accounts, tx.receiver) + tx.amount]_vars

\* C19: a successful deployment (no receiver, data present) by sender s with
\* nonce n returns derive_contract_address(s, n), whatever the rest of the
\* state is, and leaves at that address an account with code = data,
\* balance = amount and empty storage; s has paid amount and has nonce n + 1.
C19_DeployCreatesContract ==
    [][(/\ Completes("apply_transaction")
        /\ ret'.ok
        /\ Falsy(ret'.arg.receiver)
        /\ ~Falsy(ret'.arg.data)) =>
          LET tx == ret'.arg
              address == derive_contract_address(tx.sender, tx.nonce)
          IN  /\ ret'.log = address
              /\ address \in DOMAIN accounts'
              /\ accounts'[address].code = tx.data
              /\ accounts'[address].balance = tx.amount
              /\ accounts'[address].storage = EmptyStorage
              /\ get_balance(accounts', tx.sender) =
                    get_balance(accounts, tx.sender) - tx.amount
              /\ get_nonce(accounts', tx.sender) = tx.nonce + 1]_vars

\* the wallet's second deployment, funded with one coin, after a first one
C19_Witness ==
    /\ ret.op = "apply_transaction" /\ ret.ok
    /\ ret.arg.receiver = NoneStr /\ ret.arg.data = "inc"
    /\ ret.arg.amount = 1 /\ ret.arg.nonce = 1
    /\ ret.log = derive_contract_address(Wallet, 1)
    /\ derive_contract_address(Wallet, 0) \in DOMAIN accounts
    /\ accounts[Wallet].balance = DEFAULT_MINING_REWARD - 1

\* the address a deployment by tx.sender with tx.nonce would use holds code
Collision(accts, tx) ==
    LET address == derive_contract_address(tx.sender, tx.nonce)
    IN  /\ Falsy(tx.receiver)
        /\ address \in DOMAIN accts
        /\ ~Falsy(accts[address].code)

\* C20: a deployment whose derived address already holds an account with
\* non-empty code fails, the sender's balance and nonce are what they were
\* before the call, and the existing contract account is unchanged.
C20_RedeployCollisionFails ==
    [][(Completes("apply_transaction") /\ Collision(accounts, ret'.arg)) =>
          LET tx == ret'.arg
              address == derive_contract_address(tx.sender, tx.nonce)
          IN  /\ ~ret'.ok
              /\ get_balance(accounts', tx.sender) =
                    get_balance(accounts, tx.sender)
              /\ get_nonce(accounts', tx.sender) =
                    get_nonce(accounts, tx.sender)
              /\ accounts'[address] = accounts[address]]_vars

\* a funded deployment with the right nonce and enough balance was refused
\* because its address holds a contract with storage and balance
C20_Witness ==
    /\ ret.op = "apply_transaction" /\ ~ret.ok
    /\ Collision(accounts, ret.arg)
    /\ ret.arg.amount = 1
    /\ get_nonce(accounts, Wallet) = ret.arg.nonce
    /\ get_balance(accounts, Wallet) = DEFAULT_MINING_REWARD
    /\ accounts[derive_contract_address(Wallet, ret.arg.nonce)].balance = 5

\* the transaction names a receiver and carries data, and no code is
\* installed at the receiver (no account, or an account without code)
DataToCodeless(accts, tx) ==
    /\ ~Falsy(tx.receiver)
    /\ ~Falsy(tx.data)
    /\ \/ tx.receiver \notin DOMAIN accts
       \/ Falsy(accts[tx.receiver].code)

C22_CallWithoutContractFails ==
    [][(/\ Completes("apply_transaction")
        /\ DataToCodeless(accounts, ret'.arg)
        /\ verify(ret'.arg)) =>
          LET tx == ret'.arg
          IN  /\ ~ret'.ok
              /\ get_balance(accounts', tx.sender) =
                    get_balance(accounts, tx.sender)
              /\ get_nonce(accounts', tx.sender) =
                    get_nonce(accounts, tx.sender)]_vars

\* a funded sender with the right nonce sent one coin and data to an existing
\* account without code, and the call failed
C22_Witness ==
    /\ ret.op = "apply_transaction" /\ ~ret.ok
    /\ DataToCodeless(accounts, ret.arg)
    /\ ret.arg.receiver \in DOMAIN accounts
    /\ ret.arg.amount = 1
    /\ verify_transaction_logic(accounts, ret.arg).ok
    /\ get_nonce(accounts, Wallet) = 1

\* C23: after the deployment of a contract whose code adds one to
\* storage['counter'] (0 when absent), k successful calls leave
\* storage['counter'] = k.  Every successful transaction but the deployment
\* is a call here, so k is the number of applied transactions minus one.
C23_CounterCountsCalls ==
    (Contract0 \in DOMAIN accounts /\ accounts[Contract0].code = "inc") =>
        /\ StorageGet(accounts[Contract0].storage, "counter", 0) =
              Cardinality(applied.live) - 1
        /\ DOMAIN accounts[Contract0].storage \subseteq {"counter"}

\* four successful calls, by two callers, among them one that sent a coin
C23_Witness ==
    /\ Contract0 \in DOMAIN accounts
    /\ StorageGet(accounts[Contract0].storage, "counter", 0) = 4
    /\ accounts[Contract0].balance = 1
    /\ get_nonce(accounts, "b") = 2

\* C24: a call of a contract whose code holds a forbidden construct (name,
\* attribute or string literal with a double underscore, import, call of
\* getattr/setattr/delattr or type, f-string) is refused by the static check
\* before a worker process is started; the contract's storage and balance
\* are unchanged and the call transaction fails with sender balance and nonce
\* restored.
C24_ForbiddenCodeNeverRuns ==
    [][(/\ Completes("apply_transaction")
        /\ ~Falsy(ret'.arg.receiver)
        /\ ~Falsy(ret'.arg.data)
        /\ ret'.arg.receiver \in DOMAIN accounts
        /\ accounts[ret'.arg.receiver].code \in ForbiddenCodes) =>
          LET tx == ret'.arg
          IN  /\ ~ret'.ok
              /\ ~ret'.spawned
              /\ accounts'[tx.receiver] = accounts[tx.receiver]
              /\ accounts'[tx.receiver].storage = EmptyStorage
              /\ get_balance(accounts', tx.sender) =
                    get_balance(accounts, tx.sender)
              /\ get_nonce(accounts', tx.sender) =
                    get_nonce(accounts, tx.sender)]_vars

\* a call that passed the transaction checks and sent one coin to a contract
\* reading storage.__class__ was refused
C24_Witness ==
    /\ ret.op = "apply_transaction" /\ ~ret.ok /\ ~ret.spawned
    /\ ret.arg.receiver = Contract0 /\ ret.arg.amount = 1
    /\ Contract0 \in DOMAIN accounts
    /\ accounts[Contract0].code = "x = storage.__class__"
    /\ verify_transaction_logic(accounts, ret.arg).ok

\* C25: execute always returns.  A call that has started a worker comes back
\* to its caller, also when the worker never ends; a worker still alive after
\* the timeout is killed, the call fails, and the contract's storage is what
\* it was.
C25_ExecuteAlwaysReturns ==
    /\ (pc[Executor] = "join") ~>
          (pc[Executor] = "idle" /\ ret.op = "apply_transaction")
    /\ [][(pc[Executor] = "kill" /\ pc'[Executor] = "idle") =>
             LET tx == local[Executor].block
             IN  /\ ~ret'.ok
                 /\ accounts'[tx.receiver].storage =
                       accounts[tx.receiver].storage]_vars

\* the call of a contract that loops for ever came back as a failure after
\* the worker was killed
C25_Witness ==
    /\ ret.op = "apply_transaction" /\ ~ret.ok
    /\ ret.log = "Contract execution timed out"
    /\ accounts[ret.arg.receiver].code = "loop"
    /\ pc[Executor] = "idle"

\* C26: validation failures never leave the chain's mutators as exceptions:
\* add_block returns True or False for every block, and replace_chain
\* returns True or False for every candidate list, also one with missing or
\* ill-typed entries.
C26_MutatorsNeverRaise ==
    [][Completes("replace_chain") => ret'.raised = NoneStr]_vars

\* C27: any two Blockchain instances, constructed at any two times, hold
\* the same genesis block (index, previous_hash, timestamp, content,
\* difficulty and hash), and a fresh chain is that one block.
C27_GenesisIdentical ==
    [][Completes("Blockchain") =>
          /\ Len(chain') = 1
          /\ last_block(chain') = chain'[1]
          /\ chain'[1] = chain[1]]_vars

\* the pair hash H(a, b) of the statement: _sha256(a + b)
H(a, b) == <<a, b>>

\* C28: the Merkle root of an empty transaction list is None; of one
\* transaction it is that transaction's hash; of a longer list it is the
\* result of hashing adjacent pairs level by level, the last entry of an odd
\* level paired with itself (three transactions: H(H(h1,h2), H(h3,h3))).
C28_MerkleRoot ==
    local[1].block # <<>> =>
        LET txs == local[1].block.transactions
            root == local[1].block.merkle_root
            h(i) == TxHash(txs[i])
        IN  /\ Len(txs) = 0 => root = NoneHash
            /\ Len(txs) = 1 => root = h(1)
            /\ Len(txs) = 2 => root = H(h(1), h(2))
            /\ Len(txs) = 3 => root = H(H(h(1), h(2)), H(h(3), h(3)))
            /\ Len(txs) = 4 => root = H(H(h(1), h(2)), H(h(3), h(4)))
            /\ Len(txs) = 5 =>
                  root = H(H(H(h(1), h(2)), H(h(3), h(4))),
                           H(H(h(5), h(5)), H(h(5), h(5))))
            /\ Len(txs) = 6 =>
                  root = H(H(H(h(1), h(2)), H(h(3), h(4))),
                           H(H(h(5), h(6)), H(h(5), h(6))))

\* a block of three different transactions has been built
C28_Witness ==
    /\ local[1].block # <<>>
    /\ Len(local[1].block.transactions) = 3
    /\ Cardinality({local[1].block.transactions[i] : i \in 1..3}) = 3

\* C29: verify returns True for a non-coinbase transaction exactly when
\* its signature was made with the sender's key over the current values of
\* the six signed fields; a field changed after signing makes it return
\* False; a missing or malformed signature or sender key makes it return
\* False, and it never raises.
C29_VerifyExactlyAuthentic ==
    [][(Completes("verify") /\ ~is_coinbase(ret'.arg.after)) =>
          LET h == ret'.arg
          IN  /\ ret'.raised = NoneStr
              /\ ret'.ok <=> /\ h.key \in Users
                             /\ h.key = h.after.sender
                             /\ h.field = NoneStr
              /\ h.field # NoneStr => ~ret'.ok
              /\ h.key \in {NoneStr, "zz"} => ~ret'.ok
              /\ h.after.sender = MalformedKey => ~ret'.ok]_vars

\* verify has returned False for a transaction signed by its sender whose
\* amount was changed afterwards
C29_Witness ==
    /\ ret.op = "verify"
    /\ ret.arg.key = ret.arg.tx.sender
    /\ ret.arg.field = "amount"
    /\ ~ret.ok

\* tx is pending in the pool
Pending(pool, tx) == \E i \in 1..Len(pool.pending) : pool.pending[i] = tx

\* C30: a transaction leaves the mempool only with a successful add_block
\* of a block that includes it; when mining fails or add_block rejects the
\* assembled block, every transaction handed out by
\* get_transactions_for_block is still pending afterwards.
C30_PrunedOnlyWhenIncluded ==
    [][\A i \in 1..Len(mempool.pending) :
          LET tx == mempool.pending[i]
          IN  \/ Pending(mempool', tx)
              \/ /\ Len(chain') = Len(chain) + 1
                 /\ \E j \in 1..Len(last_block(chain').transactions) :
                       last_block(chain').transactions[j] = tx]_vars

\* C34: Transaction.from_dict(t.to_dict()) has the fields of t, for every
\* timestamp including 0, and Block.from_dict(b.to_dict()) has the header
\* fields, transactions and hash of b, so a block whose hash and signatures
\* verify before serialization verifies after it.
C34_WireRoundTrip ==
    [][/\ Completes("Transaction.from_dict") =>
             /\ ret'.result = ret'.arg
             /\ verify(ret'.arg) => verify(ret'.result)
       /\ Completes("Block.from_dict") =>
             /\ ret'.result = ret'.arg
             /\ calculate_hash(to_header_dict(ret'.result)) = ret'.arg.hash]_vars

\* C33: the export of every chain built by successful add_block calls,
\* signed transactions included, passes validate_chain, and replace_chain on
\* a node that holds only the genesis adopts it and ends with the same chain
\* length and the same ledger state as the exporting node.
C33_ExportRoundTrip ==
    Len(chain) > 1 =>
        LET r == replace_chain(<<GenesisBlock>>, EmptyAccounts,
                               to_dict_list(chain))
        IN  /\ validate_chain(to_dict_list(chain))
            /\ r.ok
            /\ Len(r.chain) = Len(chain)
            /\ r.accounts = accounts

\* C31: handling any peer message (tx, block, chain, unknown type,
\* malformed payload) never corrupts local state: when the handler returns,
\* chain and live state are unchanged or are the result of one complete
\* successful add_block or replace_chain, and no exception leaves the
\* connection handler.
C31_PeerInputNeverCorrupts ==
    [][Completes("handle_connection") =>
          /\ ret'.raised = NoneStr
          /\ \/ chain' = chain /\ accounts' = accounts
             \/ \E r \in {add_block(chain, accounts, last_block(chain'))} :
                   r.ok /\ r.chain = chain' /\ r.accounts = accounts'
             \/ \E r \in {replace_chain(chain, accounts, ret'.arg.blocks)} :
                   r.ok /\ r.chain = chain' /\ r.accounts = accounts']_vars

\* a chain message with an entry that is no object has been handled on a
\* node that holds a block: the exception was logged, nothing changed
C31_Witness ==
    /\ ret.op = "handle_connection"
    /\ ret.arg.type = "chain"
    /\ ret.log = "AttributeError"
    /\ ret.raised = NoneStr
    /\ Len(chain) = 2

\* C32: proof-of-work is enforced against the network's fixed difficulty:
\* every non-genesis block that add_block or validate_chain accepted has a
\* header hash with at least DIFFICULTY leading zeros, whatever difficulty
\* (smaller, zero, absent) the block declares in its own header.
C32_FixedTargetEnforced ==
    \A i \in 2..Len(chain) :
        /\ chain[i].hash = calculate_hash(to_header_dict(chain[i]))
        /\ StartsWithZeros(chain[i].hash, DIFFICULTY)

\* C35: within a block each transaction is validated against the state the
\* preceding transactions of the block produced: two transactions of one
\* sender that each pass against the pre-block state but together overspend
\* the balance or reuse the nonce make the whole block fail, and nonces n,
\* n+1 in that order with sufficient balance make it succeed.
C35_BlockValidatedInSequence ==
    [][(Completes("add_block") /\ Len(ret'.arg.transactions) = 2) =>
          LET t1 == ret'.arg.transactions[1]
              t2 == ret'.arg.transactions[2]
              balance == get_balance(accounts, Wallet)
              nonce == get_nonce(accounts, Wallet)
              alone(t) == t.nonce = nonce /\ t.amount <= balance
          IN  /\ (alone(t1) /\ alone(t2)) =>
                    ~ret'.ok /\ chain' = chain /\ accounts' = accounts
              /\ t1.amount + t2.amount > balance =>
                    ~ret'.ok /\ chain' = chain /\ accounts' = accounts
              /\ (/\ t1.nonce = nonce
                  /\ t2.nonce = nonce + 1
                  /\ t1.amount + t2.amount <= balance) =>
                    /\ ret'.ok
                    /\ get_nonce(accounts', Wallet) = nonce + 2
                    /\ get_balance(accounts', Wallet) =
                          balance - t1.amount - t2.amount]_vars

\* a block of two paid transfers with the same nonce, each of which the
\* wallet could afford alone, has been rejected
C35_Witness ==
    /\ ret.op = "add_block"
    /\ ~ret.ok
    /\ Len(ret.arg.transactions) = 2
    /\ ret.arg.transactions[1] = ret.arg.transactions[2]
    /\ ret.arg.transactions[1].amount = Payment
    /\ ret.arg.transactions[1].nonce = get_nonce(accounts, Wallet)
    /\ get_balance(accounts, Wallet) = DEFAULT_MINING_REWARD

\* the sum of the balances of a set of addresses
RECURSIVE SumBalances(_, _)
SumBalances(accts, addresses) ==
    IF addresses = {} THEN 0
    ELSE LET a == CHOOSE x \in addresses : TRUE
         IN  accts[a].balance + SumBalances(accts, addresses \ {a})

TotalSupply(accts) == SumBalances(accts, DOMAIN accts)

\* C36: every apply_transaction of a non-coinbase transaction, successful
\* (transfer, deploy, call) or failed, leaves the sum of all balances
\* unchanged, also a deploy to an address that already holds an account
\* without code and with a positive balance.
C36_SupplyConserved ==
    [][(Completes("apply_transaction") /\ ~is_coinbase(ret'.arg)) =>
          TotalSupply(accounts') = TotalSupply(accounts)]_vars

\* C37: in every reachable state every account's storage is a mapping: no
\* successful contract call commits a non-mapping value as the storage
C37_StorageAlwaysMapping ==
    \A address \in DOMAIN accounts : IsMapping(accounts[address].storage)

\* C38: nodes agree after mining: when the mine command has added a block,
\* the ledger of the mining node equals the ledger of a node that started
\* from the same chain and state and accepted that block through add_block
C38_NodesAgreeAfterMining ==
    [][Completes("cmd_mine") /\ ret'.ok
         => accounts' = add_block(chain, accounts, last_block(chain')).accounts
      ]_vars

\* the number of the address's transactions pending in the mempool
PendingOf(address) ==
    Cardinality({i \in 1..Len(mempool.pending) :
                    mempool.pending[i].sender = address})

\* C39: after any sequence of send, deploy, call and mine commands the next
\* nonce _get_nonce hands out for the wallet equals the wallet's account
\* nonce plus the number of its transactions pending in the mempool
C39_NextNonceFollowsPending ==
    cli_get_nonce(accounts, nonce_map, Wallet).nonce
        = get_nonce(accounts, Wallet) + PendingOf(Wallet)

\* the ids of the pending transactions
PendingIds == {get_tx_id(mempool.pending[i]) : i \in 1..Len(mempool.pending)}

\* C40: under any interleaving of concurrent add_transaction,
\* get_transactions_for_block and remove_transaction calls the pending list
\* never exceeds max_size, never holds two transactions with the same id,
\* holds only transactions whose verify() returned True, and, whenever no
\* thread is inside a with block, the seen ids are the ids of the pending
\* transactions
C40_MempoolInvariants ==
    /\ Len(mempool.pending) <= MaxPool
    /\ \A i, j \in 1..Len(mempool.pending) :
          i # j => get_tx_id(mempool.pending[i]) # get_tx_id(mempool.pending[j])
    /\ \A i \in 1..Len(mempool.pending) : verify(mempool.pending[i])
    /\ pool_lock = 0 => mempool.seen = PendingIds

\* two threads add the same transaction at once: one has appended it inside
\* the with block, the other waits for the lock
C40_Witness ==
    /\ calls[1].pc = "add_seen"
    /\ calls[2].pc = "add_wait"
    /\ calls[1].tx_id = calls[2].tx_id
    /\ Len(mempool.pending) = MaxPool

====
